---- MODULE Spec2Model ----
(***************************************************************************)
(* Inbound email-to-task function (processEmailTask) of the task manager:  *)
(* payload normalizer, sanitizers, task extractor and the HTTP handler     *)
(* with its user-store lookups and task-store write; the useTasks hook of  *)
(* the web client; the scheduled notification runs.                        *)
(*                                                                         *)
(* Text is modelled as a sequence of one-character strings, so that the    *)
(* regular expressions of the source act on characters as they do there.   *)
(***************************************************************************)
EXTENDS Integers, Sequences, FiniteSets, TLC

VARIABLES users, tasks, today, reqs, hook, run

vars == <<users, tasks, today, reqs, hook, run>>

(***************************************************************************)
(* Characters and strings                                                  *)
(***************************************************************************)
UpperChars == <<"A", "B", "C", "D", "E", "F", "G", "H", "I", "J", "K", "L", "M", "N", "O", "P", "Q", "R", "S", "T", "U", "V", "W", "X", "Y", "Z">>

LowerChars == <<"a", "b", "c", "d", "e", "f", "g", "h", "i", "j", "k", "l", "m", "n", "o", "p", "q", "r", "s", "t", "u", "v", "w", "x", "y", "z">>

DigitChars == <<"0", "1", "2", "3", "4", "5", "6", "7", "8", "9">>

Range(f) == {f[i] : i \in DOMAIN f}

Letters == Range(UpperChars) \cup Range(LowerChars)

Digits == Range(DigitChars)

\* String.prototype.toLowerCase on one character
LowerChar(c) ==
  IF c \in Range(UpperChars)
  THEN LowerChars[CHOOSE i \in 1..26 : UpperChars[i] = c]
  ELSE c

ToLower(s) == [i \in 1..Len(s) |-> LowerChar(s[i])]

\* \s of the regular expressions
IsSpace(c) == c \in {" ", "\n", "\t", "\r"}

\* line terminators: what '.' does not match and what ^ and $ anchor to under /m
IsLineTerm(c) == c \in {"\n", "\r"}

\* [\x00-\x1F\x7F]
IsControl(c) == c \in {"\n", "\t", "\r"}

Min2(a, b) == IF a < b THEN a ELSE b

Max2(a, b) == IF a > b THEN a ELSE b

\* String.prototype.substring(0, n)
Substring0(s, n) == SubSeq(s, 1, Min2(Len(s), n))

\* the text from position i (1-based) to the end
From(s, i) == SubSeq(s, i, Len(s))

\* pat occurs in s at position i
MatchAt(s, i, pat) ==
  /\ i >= 1 /\ i + Len(pat) - 1 <= Len(s)
  /\ pat # <<>> => s[i] = pat[1]
  /\ SubSeq(s, i, i + Len(pat) - 1) = pat

\* case-insensitive (/i) occurrence of a lower-case pattern at position i
MatchAtCI(s, i, pat) ==
  /\ i >= 1 /\ i + Len(pat) - 1 <= Len(s)
  /\ pat # <<>> => LowerChar(s[i]) = pat[1]
  /\ ToLower(SubSeq(s, i, i + Len(pat) - 1)) = pat

\* String.prototype.indexOf, 1-based, 0 when absent
IndexOf(s, pat) ==
  IF \E i \in 1..Len(s) : MatchAt(s, i, pat)
  THEN CHOOSE i \in 1..Len(s) : MatchAt(s, i, pat) /\ \A j \in 1..(i-1) : ~MatchAt(s, j, pat)
  ELSE 0

\* String.prototype.includes
Includes(s, pat) == \E i \in 1..(Len(s) + 1) : MatchAt(s, i, pat)

\* subject.match(/pat/i) for a literal lower-case pattern
IncludesCI(s, pat) == \E i \in 1..(Len(s) + 1) : MatchAtCI(s, i, pat)

\* String.prototype.trim
TrimStart(s) ==
  IF \A i \in 1..Len(s) : IsSpace(s[i]) THEN <<>>
  ELSE From(s, CHOOSE i \in 1..Len(s) : ~IsSpace(s[i]) /\ \A j \in 1..(i-1) : IsSpace(s[j]))

TrimEnd(s) ==
  IF \A i \in 1..Len(s) : IsSpace(s[i]) THEN <<>>
  ELSE SubSeq(s, 1, CHOOSE i \in 1..Len(s) : ~IsSpace(s[i]) /\ \A j \in (i+1)..Len(s) : IsSpace(s[j]))

Trim(s) == TrimEnd(TrimStart(s))

\* s.replace(/[...]/g, '') for a character class
StripChars(s, Drop(_)) == SelectSeq(s, LAMBDA c : ~Drop(c))

IsAngle(c) == c \in {"<", ">"}

\* s.replace(/pat/g, rep) for a literal pattern
RECURSIVE ReplaceAll(_, _, _)
ReplaceAll(s, pat, rep) ==
  LET i == IndexOf(s, pat) IN
  IF i = 0 THEN s
  ELSE SubSeq(s, 1, i - 1) \o rep \o ReplaceAll(From(s, i + Len(pat)), pat, rep)

(***************************************************************************)
(* Sanitization and validation helpers                                     *)
(***************************************************************************)
\* limits of the sanitizers
SubjectLimit == 200

TextLimit == 5000

EmailLimit == 254

DefaultTitle == <<"E", "m", "a", "i", "l", " ", "T", "a", "s", "k">>

\* a shorter placeholder
Placeholder_Short == <<"N", "o", " ", "d", "e", "s", "c", "r", "i", "p", "t", "i", "o", "n">>

Placeholder == <<"N", "o", " ", "d", "e", "s", "c", "r", "i", "p", "t", "i", "o", "n", " ", "p", "r", "o", "v", "i", "d", "e", "d">>

UnknownSender == <<"u", "n", "k", "n", "o", "w", "n", "@", "s", "e", "n", "d", "e", "r", ".", "c", "o", "m">>

\* the value null / undefined of a string-or-null result
NoStr == <<"<null>">>

LocalChars == Letters \cup Digits \cup {".", "_", "%", "+", "-"}

DomainChars == Letters \cup Digits \cup {".", "-"}

\* /^[a-zA-Z0-9._%+-]+@[a-zA-Z0-9.-]+\.[a-zA-Z]{2,}$/
EmailRegexTest(s) ==
  \E a \in 2..Len(s) :
    /\ s[a] = "@"
    /\ \A i \in 1..(a-1) : s[i] \in LocalChars
    /\ \E d \in (a+2)..(Len(s)-2) :
         /\ s[d] = "."
         /\ \A i \in (a+1)..(d-1) : s[i] \in DomainChars
         /\ \A i \in (d+1)..Len(s) : s[i] \in Letters

\* validateAndSanitizeEmail: the cleaned (trimmed, lower-cased) address or null
validateAndSanitizeEmail(email) ==
  IF email = <<>> THEN NoStr
  ELSE LET cleaned == ToLower(Trim(email)) IN
       IF ~EmailRegexTest(cleaned) THEN NoStr
       ELSE IF Len(cleaned) > EmailLimit THEN NoStr
       ELSE cleaned

\* extractUserIdFromEmail: the text before the first '@' of the validated address
extractUserIdFromEmail(emailAddress) ==
  LET LocalOf(sanitizedEmail) ==
        IF sanitizedEmail = NoStr THEN NoStr
        ELSE LET Before(at) == IF at <= 1 THEN NoStr ELSE SubSeq(sanitizedEmail, 1, at - 1)
             IN Before(IndexOf(sanitizedEmail, <<"@">>))
  IN LocalOf(validateAndSanitizeEmail(emailAddress))

\* sanitizeSubject
sanitizeSubject(subject) ==
  IF subject = <<>> THEN DefaultTitle
  ELSE LET cleaned == Substring0(Trim(StripChars(StripChars(subject, IsAngle), IsControl)), SubjectLimit) IN
       IF cleaned = <<>> THEN DefaultTitle ELSE cleaned

\* sanitizeTextContent without the cut to 5000 characters
sanitizeTextContent_Uncut(text) ==
  IF text = <<>> THEN <<>>
  ELSE LET a == StripChars(StripChars(text, IsAngle), IsControl)
           b == ReplaceAll(a, <<"&", "q", "u", "o", "t", ";">>, <<"\"">>)
           c == ReplaceAll(b, <<"&", "a", "m", "p", ";">>, <<"&">>)
           d == ReplaceAll(c, <<"&", "l", "t", ";">>, <<"<">>)
           e == ReplaceAll(d, <<"&", "g", "t", ";">>, <<">">>)
           f == ReplaceAll(e, <<"&", "#", "3", "9", ";">>, <<"'">>)
       IN Trim(f)

\* sanitizeTextContent
sanitizeTextContent(text) ==
  IF text = <<>> THEN <<>>
  ELSE LET a == StripChars(StripChars(text, IsAngle), IsControl)
           b == ReplaceAll(a, <<"&", "q", "u", "o", "t", ";">>, <<"\"">>)
           c == ReplaceAll(b, <<"&", "a", "m", "p", ";">>, <<"&">>)
           d == ReplaceAll(c, <<"&", "l", "t", ";">>, <<"<">>)
           e == ReplaceAll(d, <<"&", "g", "t", ";">>, <<">">>)
           f == ReplaceAll(e, <<"&", "#", "3", "9", ";">>, <<"'">>)
       IN Substring0(Trim(f), TextLimit)

(***************************************************************************)
(* Calendar dates (the Date values of the task extractor)                  *)
(***************************************************************************)
NoDate == [k |-> "none", y |-> 0, m |-> 0, d |-> 0]

InvalidDate == [k |-> "invalid", y |-> 0, m |-> 0, d |-> 0]

MkDate(y, m, d) == [k |-> "date", y |-> y, m |-> m, d |-> d]

IsLeap(y) == (y % 4 = 0 /\ y % 100 # 0) \/ y % 400 = 0

DaysInMonth(y, m) ==
  IF m = 2 THEN (IF IsLeap(y) THEN 29 ELSE 28)
  ELSE IF m \in {4, 6, 9, 11} THEN 30 ELSE 31

\* a day number past the end of the month rolls over into the following months
RECURSIVE MakeDay(_, _, _)
MakeDay(y, m, d) ==
  IF d <= DaysInMonth(y, m) THEN MkDate(y, m, d)
  ELSE IF m = 12 THEN MakeDay(y + 1, 1, d - DaysInMonth(y, m))
  ELSE MakeDay(y, m + 1, d - DaysInMonth(y, m))

\* a day number set without the roll-over into the following months
AddDays_NoRollover(date, n) == MkDate(date.y, date.m, date.d + n)

\* date.setDate(date.getDate() + n)
AddDays(date, n) == MakeDay(date.y, date.m, date.d + n)

\* new Date("YYYY-MM-DD") on the Node runtime of the functions: a month outside
\* 1..12 or a day outside 1..31 gives Invalid Date, a day past the end of the
\* month rolls over
DateParse(y, m, d) ==
  IF m \in 1..12 /\ d \in 1..31 THEN MakeDay(y, m, d) ELSE InvalidDate

IsValidCalendarDate(date) ==
  /\ date.k = "date"
  /\ date.m \in 1..12
  /\ date.d \in 1..DaysInMonth(date.y, date.m)

DigitVal(c) == (CHOOSE i \in 1..10 : DigitChars[i] = c) - 1

SetMin(S) == CHOOSE x \in S : \A y \in S : x <= y

SetMax(S) == CHOOSE x \in S : \A y \in S : x >= y

\* index of the last character of the run of \s characters that starts at i
\* (i - 1 when s[i] is not a space)
WsRunEnd(s, i) ==
  IF \A k \in i..Len(s) : IsSpace(s[k]) THEN Len(s)
  ELSE (CHOOSE k \in i..Len(s) : ~IsSpace(s[k]) /\ \A j \in i..(k-1) : IsSpace(s[j])) - 1

\* \d{4}-\d{2}-\d{2} at position j
DatePatAt(s, j) ==
  /\ j + 9 <= Len(s)
  /\ \A k \in {0, 1, 2, 3, 5, 6, 8, 9} : s[j + k] \in Digits
  /\ s[j + 4] = "-" /\ s[j + 7] = "-"

\* positions where /due:\s*(\d{4}-\d{2}-\d{2})/i matches
DueMatches(s) ==
  {i \in 1..Len(s) : MatchAtCI(s, i, <<"d", "u", "e", ":">>) /\ DatePatAt(s, WsRunEnd(s, i + 4) + 1)}

(***************************************************************************)
(* Task extractor                                                          *)
(***************************************************************************)
\* the rules with 'tomorrow' and 'next week' tested before the explicit date
extractDueDateFromSubject_RelativeFirst(subject, now) ==
  IF IncludesCI(subject, <<"t", "o", "m", "o", "r", "r", "o", "w">>) THEN AddDays(now, 1)
  ELSE IF IncludesCI(subject, <<"n", "e", "x", "t", " ", "w", "e", "e", "k">>) THEN AddDays(now, 7)
  ELSE IF DueMatches(subject) # {}
  THEN LET j == WsRunEnd(subject, SetMin(DueMatches(subject)) + 4) + 1
           y == 1000 * DigitVal(subject[j]) + 100 * DigitVal(subject[j+1])
                  + 10 * DigitVal(subject[j+2]) + DigitVal(subject[j+3])
           m == 10 * DigitVal(subject[j+5]) + DigitVal(subject[j+6])
           d == 10 * DigitVal(subject[j+8]) + DigitVal(subject[j+9])
       IN DateParse(y, m, d)
  ELSE NoDate

\* extractDueDateFromSubject; now is the date of new Date()
extractDueDateFromSubject(subject, now) ==
  IF DueMatches(subject) # {}
  THEN LET j == WsRunEnd(subject, SetMin(DueMatches(subject)) + 4) + 1
           y == 1000 * DigitVal(subject[j]) + 100 * DigitVal(subject[j+1])
                  + 10 * DigitVal(subject[j+2]) + DigitVal(subject[j+3])
           m == 10 * DigitVal(subject[j+5]) + DigitVal(subject[j+6])
           d == 10 * DigitVal(subject[j+8]) + DigitVal(subject[j+9])
       IN DateParse(y, m, d)
  ELSE IF IncludesCI(subject, <<"t", "o", "m", "o", "r", "r", "o", "w">>) THEN AddDays(now, 1)
  ELSE IF IncludesCI(subject, <<"n", "e", "x", "t", " ", "w", "e", "e", "k">>) THEN AddDays(now, 7)
  ELSE NoDate

AnyCI(subject, words) == \E w \in words : IncludesCI(subject, w)

\* the keyword tests with the high band tested first
extractImportanceFromSubject_HighFirst(subject) ==
  IF AnyCI(subject, {<<"h", "i", "g", "h">>, <<"i", "m", "p", "o", "r", "t", "a", "n", "t">>}) THEN 7
  ELSE IF AnyCI(subject, {<<"u", "r", "g", "e", "n", "t">>, <<"a", "s", "a", "p">>, <<"i", "m", "m", "e", "d", "i", "a", "t", "e">>}) THEN 9
  ELSE IF AnyCI(subject, {<<"l", "o", "w">>, <<"m", "i", "n", "o", "r">>}) THEN 3
  ELSE 5

\* extractImportanceFromSubject
extractImportanceFromSubject(subject) ==
  IF AnyCI(subject, {<<"u", "r", "g", "e", "n", "t">>, <<"a", "s", "a", "p">>, <<"i", "m", "m", "e", "d", "i", "a", "t", "e">>}) THEN 9
  ELSE IF AnyCI(subject, {<<"h", "i", "g", "h">>, <<"i", "m", "p", "o", "r", "t", "a", "n", "t">>}) THEN 7
  ELSE IF AnyCI(subject, {<<"l", "o", "w">>, <<"m", "i", "n", "o", "r">>}) THEN 3
  ELSE 5

\* body.replace(/<[^>]*>/g, '')
RECURSIVE StripTags(_)
StripTags(s) ==
  LET i == IndexOf(s, <<"<">>) IN
  IF i = 0 THEN s
  ELSE LET j == IndexOf(From(s, i), <<">">>) IN
       IF j = 0 THEN s
       ELSE SubSeq(s, 1, i - 1) \o StripTags(From(s, i + j))

HeaderLabels == {<<"f", "r", "o", "m", ":">>, <<"t", "o", ":">>, <<"s", "u", "b", "j", "e", "c", "t", ":">>, <<"d", "a", "t", "e", ":">>, <<"s", "e", "n", "t", ":">>, <<"c", "c", ":">>, <<"b", "c", "c", ":">>}

ForwardLabels == {<<"o", "r", "i", "g", "i", "n", "a", "l", " ", "m", "e", "s", "s", "a", "g", "e">>, <<"f", "r", "o", "m", ":">>, <<"s", "e", "n", "t", ":">>}

\* one line under /^.*?(?=label|...)/im: the text before the first label goes
StripLinePrefix(line, labels) ==
  LET hits == {k \in 1..Len(line) : \E l \in labels : MatchAtCI(line, k, l)} IN
  IF hits = {} THEN line ELSE From(line, SetMin(hits))

\* one line under /^>.*$/m
StripQuotedLine(line) == IF line # <<>> /\ line[1] = ">" THEN <<>> ELSE line

LineOp(line, op) ==
  CASE op = "headers" -> StripLinePrefix(line, HeaderLabels)
    [] op = "forward" -> StripLinePrefix(line, ForwardLabels)
    [] op = "quotes"  -> StripQuotedLine(line)

\* a /gm replacement that acts on every line separately
RECURSIVE MapLines(_, _)
MapLines(s, op) ==
  IF \A k \in 1..Len(s) : ~IsLineTerm(s[k]) THEN LineOp(s, op)
  ELSE LET e == CHOOSE k \in 1..Len(s) : IsLineTerm(s[k]) /\ \A j \in 1..(k-1) : ~IsLineTerm(s[j])
       IN LineOp(SubSeq(s, 1, e - 1), op) \o <<s[e]>> \o MapLines(From(s, e + 1), op)

\* last newline of the \s* run that follows position i (0 when there is none):
\* where the \n of /X\s*\n/ lands
LastNewlineInRun(s, i) ==
  LET ks == {k \in i..WsRunEnd(s, i) : s[k] = "\n"} IN
  IF ks = {} THEN 0 ELSE SetMax(ks)

\* end of the line that contains position i (last index before the terminator)
LineEndFrom(s, i) ==
  IF \A k \in i..Len(s) : ~IsLineTerm(s[k]) THEN Len(s)
  ELSE (CHOOSE k \in i..Len(s) : IsLineTerm(s[k]) /\ \A j \in i..(k-1) : ~IsLineTerm(s[j])) - 1

\* s.replace(/--\s*\n.*$/m, ''): the first match only
StripSignature(s) ==
  LET hits == {i \in 1..Len(s) : MatchAt(s, i, <<"-", "-">>) /\ LastNewlineInRun(s, i + 2) # 0} IN
  IF hits = {} THEN s
  ELSE LET i == SetMin(hits)
           n == LastNewlineInRun(s, i + 2)
       IN SubSeq(s, 1, i - 1) \o From(s, LineEndFrom(s, n + 1) + 1)

\* s.replace(/\n\s*\n/g, '\n\n')
RECURSIVE CollapseBlankLines(_)
CollapseBlankLines(s) ==
  LET hits == {i \in 1..Len(s) : s[i] = "\n" /\ LastNewlineInRun(s, i + 1) # 0} IN
  IF hits = {} THEN s
  ELSE LET i == SetMin(hits) IN
       SubSeq(s, 1, i - 1) \o <<"\n", "\n">>
         \o CollapseBlankLines(From(s, LastNewlineInRun(s, i + 1) + 1))

\* where /^\s+|\s+$/m matches when tried at position i: the index of the last
\* character of the match, or 0.  ^\s+ takes the whole run of spaces at the
\* start of a line; \s+$ takes the spaces up to the last line end in the run
TrimMatchEnd(s, i) ==
  IF ~IsSpace(s[i]) THEN 0
  ELSE LET j == WsRunEnd(s, i)
           ks == {k \in i..j : k = Len(s) \/ IsLineTerm(s[k + 1])}
       IN IF i = 1 \/ IsLineTerm(s[i - 1]) THEN j
          ELSE IF ks # {} THEN SetMax(ks) ELSE 0

\* s.replace(/^\s+|\s+$/gm, ''), scanning from position i
RECURSIVE TrimLinesFrom(_, _)
TrimLinesFrom(s, i) ==
  LET hits == {p \in i..Len(s) : TrimMatchEnd(s, p) # 0} IN
  IF hits = {} THEN From(s, i)
  ELSE LET p == SetMin(hits) IN
       SubSeq(s, i, p - 1) \o TrimLinesFrom(s, TrimMatchEnd(s, p) + 1)

\* s.split(/\n\s*\n/)
RECURSIVE SplitParagraphs(_)
SplitParagraphs(s) ==
  LET hits == {i \in 1..Len(s) : s[i] = "\n" /\ LastNewlineInRun(s, i + 1) # 0} IN
  IF hits = {} THEN <<s>>
  ELSE LET i == SetMin(hits) IN
       <<SubSeq(s, 1, i - 1)>> \o SplitParagraphs(From(s, LastNewlineInRun(s, i + 1) + 1))

\* thresholds of the short-content fallback
MinCleanedLen == 50

MinParagraphLen == 20

\* cleanEmailBody
cleanEmailBody(body) ==
  LET Clean(textOnly) ==
        LET withoutHeaders == MapLines(textOnly, "headers")
            withoutQuotes == MapLines(withoutHeaders, "quotes")
            withoutSignature == StripSignature(withoutQuotes)
            withoutForwardMarkers == MapLines(withoutSignature, "forward")
            Result(cleaned, paragraphs) ==
              LET FirstOf(long) ==
                    IF Len(cleaned) < MinCleanedLen /\ long # {}
                    THEN Trim(paragraphs[SetMin(long)])
                    ELSE IF cleaned = <<>> THEN Placeholder ELSE cleaned
              IN FirstOf({p \in 1..Len(paragraphs) : Len(Trim(paragraphs[p])) > MinParagraphLen})
        IN Result(Trim(TrimLinesFrom(CollapseBlankLines(withoutForwardMarkers), 1)),
                  SplitParagraphs(textOnly))
  IN Clean(StripTags(body))

ReplyMarkers == {<<"f", "w", "d", ":">>, <<"r", "e", ":">>, <<"f", "w", ":">>, <<"f", "o", "r", "w", "a", "r", "d", ":">>, <<"r", "e", "p", "l", "y", ":">>}

\* the replacement applied twice: a second leading marker goes as well
StripReplyPrefix_Twice(s) ==
  LET Once(t) ==
        IF \E p \in ReplyMarkers : MatchAtCI(t, 1, p)
        THEN LET p == CHOOSE q \in ReplyMarkers : MatchAtCI(t, 1, q)
             IN From(t, WsRunEnd(t, Len(p) + 1) + 1)
        ELSE t
  IN Once(Once(s))

\* rawSubject.replace(/^(Fwd|Re|Fw|Forward|Reply):\s*/i, '')
StripReplyPrefix(s) ==
  IF \E p \in ReplyMarkers : MatchAtCI(s, 1, p)
  THEN LET p == CHOOSE q \in ReplyMarkers : MatchAtCI(s, 1, q)
       IN From(s, WsRunEnd(s, Len(p) + 1) + 1)
  ELSE s

Clamp(n) == Max2(1, Min2(10, n))

\* the cleaned subject of parseEmailToTask
CleanSubject(subject) ==
  LET stripped == Trim(StripReplyPrefix(sanitizeSubject(subject)))
  IN IF stripped = <<>> THEN DefaultTitle ELSE stripped

\* the EmailTask with the cleaned subject recorded as the original one
TaskDraft_CleanedOriginal(email, now) ==
  LET rawBody == IF email.text # <<>> THEN email.text ELSE email.html
      Draft(cleanSubject, description, sender, importance) ==
        [title |-> cleanSubject,
         description |-> IF description = <<>> THEN Placeholder ELSE description,
         area |-> "inbox",
         importance |-> Clamp(IF importance = 0 THEN 5 ELSE importance),
         dueDate |-> extractDueDateFromSubject(cleanSubject, now),
         sender |-> IF sender = NoStr THEN UnknownSender ELSE sender,
         receivedAt |-> email.receivedAt,
         originalSubject |-> cleanSubject]
      WithSubject(cleanSubject) ==
        Draft(cleanSubject,
              sanitizeTextContent(cleanEmailBody(rawBody)),
              validateAndSanitizeEmail(email.from),
              extractImportanceFromSubject(cleanSubject))
  IN WithSubject(CleanSubject(email.subject))

\* the EmailTask parseEmailToTask returns; now is the date of the new Date()
\* calls while the draft is built
TaskDraft(email, now) ==
  LET rawBody == IF email.text # <<>> THEN email.text ELSE email.html
      Draft(rawSubject, cleanSubject, description, sender, importance) ==
        [title |-> cleanSubject,
         description |-> IF description = <<>> THEN Placeholder ELSE description,
         area |-> "inbox",
         importance |-> Clamp(IF importance = 0 THEN 5 ELSE importance),
         dueDate |-> extractDueDateFromSubject(cleanSubject, now),
         sender |-> IF sender = NoStr THEN UnknownSender ELSE sender,
         receivedAt |-> email.receivedAt,
         originalSubject |-> rawSubject]
      WithSubject(cleanSubject) ==
        Draft(sanitizeSubject(email.subject), cleanSubject,
              sanitizeTextContent(cleanEmailBody(rawBody)),
              validateAndSanitizeEmail(email.from),
              extractImportanceFromSubject(cleanSubject))
  IN WithSubject(CleanSubject(email.subject))

\* what parseEmailToTask leaves behind when it throws
ParseFault == [threw |-> TRUE]

\* parseEmailToTask without the log of the parsed task
parseEmailToTask_Unlogged(email, now) == TaskDraft(email, now)

\* parseEmailToTask: before it returns the draft it logs dueDate?.toISOString(),
\* which throws a RangeError on an Invalid Date
parseEmailToTask(email, now) ==
  IF extractDueDateFromSubject(CleanSubject(email.subject), now) = InvalidDate
  THEN ParseFault
  ELSE TaskDraft(email, now)

(***************************************************************************)
(* Request bodies: JavaScript values                                       *)
(*                                                                         *)
(* An array is its length n, the elements that are not the filler (items,  *)
(* by 0-based index) and the filler (fill, a number or null).  An object   *)
(* is its numeric keys "0".."n-1" in the same form, followed by its named  *)
(* properties props, a sequence of <<key, value>> in insertion order.      *)
(***************************************************************************)
Undef == [t |-> "undef"]

Null == [t |-> "null"]

Str(cs) == [t |-> "str", v |-> cs]

\* the decimal digits of a natural number
RECURSIVE NumChars(_)
NumChars(k) ==
  IF k < 10 THEN <<DigitChars[k + 1]>>
  ELSE NumChars(k \div 10) \o <<DigitChars[(k % 10) + 1]>>

\* a number, held as its decimal text
Num(k) == [t |-> "num", v |-> NumChars(k)]

Arr(n, items, fill) == [t |-> "arr", n |-> n, items |-> items, fill |-> fill, props |-> <<>>]

ArrayLike(n, items, fill, props) == [t |-> "obj", n |-> n, items |-> items, fill |-> fill, props |-> props]

Obj(props) == ArrayLike(0, <<>>, Null, props)

\* typeof v === 'object' && v (arrays included)
IsObject(v) == v.t \in {"obj", "arr"}

IsString(v) == v.t = "str"

\* JavaScript truthiness
Truthy(v) ==
  CASE v.t \in {"undef", "null"} -> FALSE
    [] v.t = "str" -> v.v # <<>>
    [] v.t = "num" -> v.v # <<"0">>
    [] OTHER -> TRUE

\* a || b
OrV(a, b) == IF Truthy(a) THEN a ELSE b

\* v[key] for a named key, on a value that is not null or undefined
Prop(v, key) ==
  IF v.t = "obj" /\ \E p \in 1..Len(v.props) : v.props[p][1] = key
  THEN v.props[CHOOSE p \in 1..Len(v.props) : v.props[p][1] = key][2]
  ELSE Undef

\* v?.[key]
OptProp(v, key) == IF v.t \in {"undef", "null"} THEN Undef ELSE Prop(v, key)

\* a[i]
Elem(a, i) ==
  IF i \in DOMAIN a.items THEN a.items[i]
  ELSE IF i >= 0 /\ i < a.n THEN a.fill ELSE Undef

\* the characters of a string value, '' for anything else: what the
\* sanitizers make of (v || '') behind their typeof guard
CharsOf(v) == IF IsString(v) THEN v.v ELSE <<>>

RECURSIVE SortSet(_)
SortSet(S) == IF S = {} THEN <<>> ELSE <<SetMin(S)>> \o SortSet(S \ {SetMin(S)})

\* the indices of the elements that are not the filler, ascending
ItemIndices(v) == SortSet({i \in DOMAIN v.items : i >= 0 /\ i < v.n})

(***************************************************************************)
(* JSON.stringify, by length and by the places of the keys                 *)
(***************************************************************************)
NumDigits(k) ==
  IF k < 10 THEN 1 ELSE IF k < 100 THEN 2 ELSE IF k < 1000 THEN 3
  ELSE IF k < 10000 THEN 4 ELSE IF k < 100000 THEN 5 ELSE 6

\* total number of digits of the keys "0" .. "k-1"
DigitsBelow(k) ==
  IF k <= 10 THEN k
  ELSE IF k <= 100 THEN 10 + 2 * (k - 10)
  ELSE IF k <= 1000 THEN 190 + 3 * (k - 100)
  ELSE IF k <= 10000 THEN 2890 + 4 * (k - 1000)
  ELSE IF k <= 100000 THEN 38890 + 5 * (k - 10000)
  ELSE 488890 + 6 * (k - 100000)

\* characters that a JSON string literal escapes with a backslash
EscLen(c) == IF c \in {"\n", "\t", "\r", "\"", "\\"} THEN 2 ELSE 1

\* length of the text of a string inside JSON.stringify output
SumEsc(s) == Len(s) + Cardinality({i \in 1..Len(s) : EscLen(s[i]) = 2})

RECURSIVE JsonLen(_)
RECURSIVE ItemsLenBelow(_, _)
RECURSIVE PropsLenBelow(_, _)

\* length of the text of the non-filler elements with index below i
ItemsLenBelow(v, i) ==
  LET S == {j \in DOMAIN v.items : j >= 0 /\ j < i /\ j < v.n} IN
  IF S = {} THEN 0
  ELSE JsonLen(v.items[SetMax(S)]) + ItemsLenBelow(v, SetMax(S))

\* offset, inside the text of v, at which numeric element i starts
\* (for an object: at which its key starts); i = v.n gives the end of the block
NumericStart(v, i) ==
  LET k == Min2(i, v.n)
      fillers == k - Cardinality({j \in DOMAIN v.items : j >= 0 /\ j < k})
  IN 1 + ItemsLenBelow(v, k) + fillers * JsonLen(v.fill) + k
       + (IF v.t = "obj" THEN DigitsBelow(k) + 3 * k ELSE 0)

\* length of the text of the named properties before property p, commas included
PropsLenBelow(v, p) ==
  IF p <= 1 THEN 0
  ELSE PropsLenBelow(v, p - 1) + Len(v.props[p-1][1]) + 3 + JsonLen(v.props[p-1][2]) + 1

\* offset, inside the text of v, at which the key of named property p starts
PropStart(v, p) == NumericStart(v, v.n) + PropsLenBelow(v, p)

\* JSON.stringify(v).length
JsonLen(v) ==
  CASE v.t \in {"undef", "null"} -> 4
    [] v.t = "num" -> Len(v.v)
    [] v.t = "str" -> 2 + SumEsc(v.v)
    [] OTHER ->
         IF v.n + Len(v.props) = 0 THEN 2
         \* the place of the last comma is taken by the closing bracket
         ELSE PropStart(v, Len(v.props) + 1)

\* The keyed entries of JSON.stringify(v) in text order, at every depth:
\* [key, val, end] where end is the offset just past the value.  A pattern
\* such as /"from":\s*"([^"]+)"/ can only match at such an entry: inside a
\* string value the quotes are escaped (\"from\":) and do not match.
RECURSIVE Entries(_, _)
RECURSIVE ItemEntries(_, _, _)
RECURSIVE PropEntries(_, _, _)

ItemEntries(v, base, idx) ==
  IF idx = <<>> THEN <<>>
  ELSE LET i == Head(idx)
           start == base + NumericStart(v, i) + (IF v.t = "obj" THEN NumDigits(i) + 3 ELSE 0)
       IN Entries(v.items[i], start) \o ItemEntries(v, base, Tail(idx))

PropEntries(v, base, p) ==
  IF p > Len(v.props) THEN <<>>
  ELSE LET start == base + PropStart(v, p) + Len(v.props[p][1]) + 3
           val == v.props[p][2]
       IN <<[key |-> v.props[p][1], val |-> val, end |-> start + JsonLen(val)]>>
            \o Entries(val, start) \o PropEntries(v, base, p + 1)

Entries(v, base) ==
  IF ~IsObject(v) THEN <<>>
  ELSE ItemEntries(v, base, ItemIndices(v)) \o PropEntries(v, base, 1)

\* the text of a string inside JSON.stringify output, without the quotes
RECURSIVE EscapeChars(_)
EscapeChars(s) ==
  LET hits == {i \in 1..Len(s) : EscLen(s[i]) = 2} IN
  IF hits = {} THEN s
  ELSE LET i == SetMin(hits)
           letter == CASE s[i] = "\n" -> "n" [] s[i] = "\t" -> "t" [] s[i] = "\r" -> "r"
                       [] OTHER -> s[i]
       IN SubSeq(s, 1, i - 1) \o <<"\\", letter>> \o EscapeChars(From(s, i + 1))

\* what ([^"]+) captures of a string value: its escaped text up to the first quote
QuotedCapture(cs) ==
  LET e == EscapeChars(cs)
      q == IndexOf(e, <<"\"">>)
  IN IF q = 0 THEN e ELSE SubSeq(e, 1, q - 1)

HasInnerAt(cs) == \E a \in 2..(Len(cs) - 1) : cs[a] = "@"

\* first match of /"<key>":\s*"([^"]+)"/ in the first `limit` characters of
\* JSON.stringify(v): the capture at the first entry with that key whose value
\* is a non-empty string; ci is the /i flag, needAt asks for [^"]+@[^"]+
KeyMatch(v, key, ci, needAt, limit) ==
  LET Hit(e, capture) ==
        /\ (IF ci THEN ToLower(e.key) = key ELSE e.key = key)
        /\ IsString(e.val) /\ capture # <<>>
        /\ e.end - JsonLen(e.val) + Len(capture) + 2 <= limit
        /\ (needAt => HasInnerAt(capture))
      In(es) ==
        LET First(hits) ==
              IF hits = {} THEN Undef ELSE Str(QuotedCapture(es[SetMin(hits)].val.v))
        IN First({k \in 1..Len(es) : Hit(es[k], QuotedCapture(es[k].val.v))})
  IN In(Entries(v, 0))

\* KeyMatch for the first of several keys that matches (patterns tried in order)
RECURSIVE KeyMatchFirst(_, _, _, _, _)
KeyMatchFirst(v, keys, ci, needAt, limit) ==
  IF keys = <<>> THEN Undef
  ELSE LET Or(match) ==
             IF match # Undef THEN match ELSE KeyMatchFirst(v, Tail(keys), ci, needAt, limit)
       IN Or(KeyMatch(v, Head(keys), ci, needAt, limit))

(***************************************************************************)
(* The field patterns on plain text (a string body or a string element)    *)
(***************************************************************************)
\* the characters a capture class accepts
InClass(c, class) ==
  CASE class = "quote" -> c # "\""                          \* [^"]
    [] class = "csv"   -> c \notin {"\"", ",", "\n"}        \* [^",\n]
    [] class = "token" -> c # "," /\ ~IsSpace(c)            \* [^,\s\n]
    [] class = "line"  -> ~IsLineTerm(c)                    \* [^\n\r]

\* index of the last character of the run of class characters starting at i
ClassRunEnd(s, i, class) ==
  IF \A k \in i..Len(s) : InClass(s[k], class) THEN Len(s)
  ELSE (CHOOSE k \in i..Len(s) : ~InClass(s[k], class) /\ \A j \in i..(k-1) : InClass(s[j], class)) - 1

\* where the capture of /label\s*"?(class+)"?/ starts when the label ends
\* before position j: past the spaces and past the opening quote
CaptureStart(s, j, quote) ==
  LET k == WsRunEnd(s, j) + 1
      q == k <= Len(s) /\ s[k] = "\""
  IN IF quote = "required" THEN (IF q THEN k + 1 ELSE 0)
     ELSE IF quote = "optional" /\ q THEN k + 1
     ELSE k

\* the match of the pattern with its label at position i, as <<from, to>>
\* indices of the capture, or <<0, 0>>
CaptureAt(s, i, label, quote, class, needAt) ==
  LET b == CaptureStart(s, i + Len(label), quote)
      e == IF b = 0 THEN 0 ELSE ClassRunEnd(s, b, class)
      w == WsRunEnd(s, i + Len(label))
  IN IF b # 0 /\ e >= b
        /\ (needAt => HasInnerAt(SubSeq(s, b, e)))
        /\ (quote = "required" => e < Len(s) /\ s[e + 1] = "\"")
     THEN <<b, e>>
     \* [^\n\r]+ after a run of spaces that reaches the end of the text: the
     \* run gives back its last character that is not a line terminator
     ELSE IF class = "line" /\ w = Len(s)
             /\ \E k \in (i + Len(label))..w : ~IsLineTerm(s[k])
     THEN LET k == SetMax({x \in (i + Len(label))..w : ~IsLineTerm(s[x])}) IN <<k, k>>
     ELSE <<0, 0>>

\* leftmost match of /(?:label1|label2)\s*"?(class+)"?/ in s: the capture as a
\* string value, undefined without a match; ci is the /i flag
LabelCapture(s, labels, ci, quote, class, needAt) ==
  LET at(i, l) == IF ci THEN MatchAtCI(s, i, l) ELSE MatchAt(s, i, l)
      \* the matches, each as <<position of the label, capture>>
      Leftmost(ms) ==
        IF ms = {} THEN Undef
        ELSE LET Of(m) == Str(SubSeq(s, m[2][1], m[2][2]))
             IN Of(CHOOSE m \in ms : \A n \in ms : m[1] <= n[1])
  IN Leftmost({m \in {<<p[1], CaptureAt(s, p[1], p[2], quote, class, needAt)>> :
                        p \in {q \in (1..Len(s)) \X labels : at(q[1], q[2])}} : m[2] # <<0, 0>>})

\* match[1].trim()
TrimV(v) == IF IsString(v) THEN Str(Trim(v.v)) ELSE v

(***************************************************************************)
(* JSON text of small values, and JSON.parse                               *)
(***************************************************************************)
RECURSIVE JsonText(_)
RECURSIVE JoinItems(_, _)
RECURSIVE JoinProps(_, _)

\* the numeric elements from index i on, each followed by a comma
JoinItems(v, i) ==
  IF i >= v.n THEN <<>>
  ELSE (IF v.t = "obj" THEN <<"\"">> \o NumChars(i) \o <<"\"", ":">> ELSE <<>>)
         \o JsonText(Elem(v, i)) \o <<",">> \o JoinItems(v, i + 1)

\* the named properties from p on, each followed by a comma
JoinProps(v, p) ==
  IF p > Len(v.props) THEN <<>>
  ELSE <<"\"">> \o v.props[p][1] \o <<"\"", ":">> \o JsonText(v.props[p][2]) \o <<",">>
         \o JoinProps(v, p + 1)

\* JSON.stringify(v) as text
JsonText(v) ==
  CASE v.t \in {"undef", "null"} -> <<"n", "u", "l", "l">>
    [] v.t = "num" -> v.v
    [] v.t = "str" -> <<"\"">> \o EscapeChars(v.v) \o <<"\"">>
    [] OTHER ->
         LET inner == JoinItems(v, 0) \o JoinProps(v, 1)
             open == IF v.t = "arr" THEN "[" ELSE "{"
             close == IF v.t = "arr" THEN "]" ELSE "}"
         IN IF inner = <<>> THEN <<open, close>>
            ELSE <<open>> \o SubSeq(inner, 1, Len(inner) - 1) \o <<close>>

(***************************************************************************)
(* The inbound payloads of the model                                       *)
(***************************************************************************)
kFrom == <<"f", "r", "o", "m">>

kTo == <<"t", "o">>

kSubject == <<"s", "u", "b", "j", "e", "c", "t">>

kText == <<"t", "e", "x", "t">>

kHtml == <<"h", "t", "m", "l">>

kSender == <<"s", "e", "n", "d", "e", "r">>

kRecipient == <<"r", "e", "c", "i", "p", "i", "e", "n", "t">>

kHeaders == <<"h", "e", "a", "d", "e", "r", "s">>

kMessage == <<"m", "e", "s", "s", "a", "g", "e">>

kEventData == <<"e", "v", "e", "n", "t", "-", "d", "a", "t", "a">>

kBodyPlain == <<"b", "o", "d", "y", "-", "p", "l", "a", "i", "n">>

kBodyHtml == <<"b", "o", "d", "y", "-", "h", "t", "m", "l">>

kStrippedText == <<"s", "t", "r", "i", "p", "p", "e", "d", "-", "t", "e", "x", "t">>

kStrippedHtml == <<"s", "t", "r", "i", "p", "p", "e", "d", "-", "h", "t", "m", "l">>

kBody == <<"b", "o", "d", "y">>

\* sender and recipient addresses
FromOk == <<"a", "@", "b", ".", "c", "o">>

ToExact == <<"a", "b", "@", "x", ".", "o", "r", "g">>

ToMixedCase == <<"A", "b", "@", "x", ".", "o", "r", "g">>

ToUnknown == <<"z", "z", "@", "x", ".", "o", "r", "g">>

ToMalformed == <<"n", "o", "t", "-", "a", "n", "-", "e", "m", "a", "i", "l">>

\* the ids of the user documents that may exist
UserAb == <<"a", "b">>

UserAB == <<"A", "b">>

UseraB == <<"a", "B">>

UserCd == <<"c", "d">>

UserStores == {{}, {UserAb}, {UserAB}, {UserAB, UseraB}, {UserAb, UserAB}, {UserCd}}

\* months and days tried in the 'due: YYYY-MM-DD' token
MaxDueMonth == 13

MaxDueDay == 32

Pad(n) == SubSeq([i \in 1..n |-> "x"], 1, n)

TwoDigits(k) == <<DigitChars[(k \div 10) + 1], DigitChars[(k % 10) + 1]>>

DueSubject(m, d) == <<"P", "a", "y", " ", "d", "u", "e", ":", " ", "2", "0", "2", "4", "-">> \o TwoDigits(m) \o <<"-">> \o TwoDigits(d)

DueSubjects ==
  {DueSubject(m, d) : m \in {0, 1, 2, MaxDueMonth - 1, MaxDueMonth},
                      d \in {0, 1, 30, MaxDueDay - 1, MaxDueDay}}

PlainSubject == <<"R", "e", "v", "i", "e", "w", " ", "p", "r", "o", "p", "o", "s", "a", "l">>

Subjects ==
  {PlainSubject,
   <<"U", "R", "G", "E", "N", "T", ":", " ", "S", "e", "r", "v", "e", "r", " ", "d", "o", "w", "n", " ", "-", " ", "f", "i", "x", " ", "i", "m", "m", "e", "d", "i", "a", "t", "e", "l", "y">>,
   <<"F", "w", "d", ":", " ", "F", "w", "d", ":", " ", "M", "e", "e", "t", "i", "n", "g">>,
   <<"F", "w", ":", " ", "S", "p", "e", "e", "x", "x", " ", "l", "e", "a", "r", "n", "i", "n", "g", " ", "j", "o", "u", "r", "n", "e", "y">>,
   <<"R", "e", ":", " ", "i", "m", "p", "o", "r", "t", "a", "n", "t", " ", "-", " ", "c", "a", "l", "l", " ", "t", "o", "m", "o", "r", "r", "o", "w">>,
   <<"R", "E", "P", "L", "Y", ":", " ", " ", " ", "m", "i", "n", "o", "r", " ", "f", "i", "x", " ", "n", "e", "x", "t", " ", "w", "e", "e", "k">>,
   <<"H", "I", "G", "H", ":", " ", "D", "u", "e", ":", " ", "2", "0", "2", "4", "-", "0", "1", "-", "2", "0", " ", "-", " ", "C", "l", "i", "e", "n", "t", " ", "p", "r", "e", "s", "e", "n", "t", "a", "t", "i", "o", "n", " ", "t", "o", "m", "o", "r", "r", "o", "w">>,
   <<"u", "r", "<", "g", "e", "n", "t", " ", "b", "u", "d", "g", "e", "t">>,
   <<"H", "i", "g", "h", " ", "p", "r", "i", "o", "r", "i", "t", "y", ":", " ", "u", "r", "g", "e", "n", "t", " ", "f", "i", "x">>,
   <<"S", "h", "i", "p", " ", "T", "O", "M", "O", "R", "R", "O", "W">>,
   <<"P", "l", "a", "n", " ", "n", "e", "x", "t", " ", "w", "e", "e", "k", ",", " ", "s", "t", "a", "r", "t", " ", "t", "o", "m", "o", "r", "r", "o", "w">>,
   <<"F", "w", "d", ":">>,
   <<"<", ">">>,
   Pad(SubjectLimit - 10) \o <<" ", "a", "s", "a", "p">>,
   Pad(SubjectLimit - 3) \o <<"u", "r", "g", "e", "n", "t">>,
   Pad(SubjectLimit) \o <<" ", "t", "o", "m", "o", "r", "r", "o", "w">>}
    \cup DueSubjects

PlainText == <<"T", "h", "e", " ", "p", "r", "o", "d", "u", "c", "t", "i", "o", "n", " ", "s", "e", "r", "v", "e", "r", " ", "i", "s", " ", "d", "o", "w", "n", ".">>

QuotedShortText == <<"T", "h", "a", "n", "k", "s", "!", "\n", ">", " ", "q", "u", "o", "t", "e", "d", " ", "l", "i", "n", "e", "\n", "-", "-", "\n", "J", "o", "h", "n", " ", "D", "o", "e">>

QuotedLongText ==
  <<"P", "l", "e", "a", "s", "e", " ", "r", "e", "v", "i", "e", "w", " ", "t", "h", "e", " ", "a", "t", "t", "a", "c", "h", "e", "d", " ", "q", "u", "a", "r", "t", "e", "r", "l", "y", " ", "r", "e", "p", "o", "r", "t", " ", "b", "e", "f", "o", "r", "e", " ", "F", "r", "i", "d", "a", "y", " ", "n", "o", "o", "n", ".", "\n", ">", " ", "o", "l", "d", " ", "r", "e", "p", "l", "y", " ", "l", "i", "n", "e", "\n", "-", "-", " ", "\n", "J", "o", "h", "n", " ", "D", "o", "e", "\n", "C", "E", "O", " ", "C", "o", "m", "p", "a", "n", "y">>

HtmlText == <<"<", "p", ">", "H", "e", "l", "l", "o", "<", "/", "p", ">">>

\* a text one character longer than the limit of a sanitized text
LongText == Pad(TextLimit - 4) \o <<" ", "d", "o", "n", "e">>

Texts == {PlainText, QuotedShortText, QuotedLongText, HtmlText, LongText, <<>>}

SimpleBody(from, to, subject, text) ==
  Obj(<<<<kFrom, Str(from)>>, <<kTo, Str(to)>>, <<kSubject, Str(subject)>>, <<kText, Str(text)>>>>)

BaseBody == SimpleBody(FromOk, ToExact, PlainSubject, PlainText)

\* a payload with a receipt time of its own
StampedBody ==
  Obj(<<<<kFrom, Str(FromOk)>>, <<kTo, Str(ToExact)>>, <<kSubject, Str(<<"R", "e", ":", " ", "R", "e", "v", "i", "e", "w", " ", "p", "r", "o", "p", "o", "s", "a", "l">>)>>,
        <<kText, Str(PlainText)>>, <<<<"r", "e", "c", "e", "i", "v", "e", "d", "A", "t">>, Str(<<"2", "0", "0", "1", "-", "0", "1", "-", "0", "1">>)>>>>)

\* the simple format, one field varied at a time
SimpleBodies ==
  {SimpleBody(FromOk, to, PlainSubject, PlainText) : to \in {ToExact, ToMixedCase, ToUnknown, ToMalformed}}
    \cup {SimpleBody(FromOk, ToExact, s, PlainText) : s \in Subjects}
    \cup {SimpleBody(FromOk, ToMixedCase, PlainSubject, x) : x \in Texts}
    \cup {SimpleBody(<<"n", "o", "b", "o", "d", "y">>, ToExact, PlainSubject, PlainText),
          SimpleBody(FromOk, ToExact, <<>>, PlainText),
          StampedBody,
          Obj(<<<<kFrom, Str(FromOk)>>, <<kTo, Str(ToExact)>>>>),
          Obj(<<<<kFrom, Str(FromOk)>>, <<kTo, Str(ToMixedCase)>>, <<kSubject, Str(PlainSubject)>>>>),
          Obj(<<<<kFrom, Str(FromOk)>>, <<kTo, Str(ToExact)>>, <<kSubject, Str(PlainSubject)>>,
                <<kHtml, Str(HtmlText)>>>>),
          Obj(<<<<kFrom, Num(5)>>, <<kTo, Str(ToExact)>>, <<kSubject, Num(7)>>>>),
          Obj(<<<<kFrom, Str(FromOk)>>, <<kSubject, Str(PlainSubject)>>,
                <<<<"e", "n", "v", "e", "l", "o", "p", "e">>, Obj(<<<<kTo, Str(ToExact)>>>>)>>>>)}

HeadersObj == Obj(<<<<kFrom, Str(FromOk)>>, <<kTo, Str(ToMixedCase)>>, <<kSubject, Str(PlainSubject)>>>>)

\* the event-data and recipient formats, complete and incomplete
MailgunBodies ==
  {Obj(<<<<kEventData, Obj(<<<<kMessage, Obj(<<<<kHeaders, HeadersObj>>,
                                                 <<kBodyPlain, Str(PlainText)>>>>)>>>>)>>>>),
   Obj(<<<<kEventData, Obj(<<<<kMessage, Obj(<<<<kFrom, Str(FromOk)>>, <<kTo, Str(ToExact)>>,
                                                 <<kSubject, Str(PlainSubject)>>,
                                                 <<kStrippedText, Str(PlainText)>>>>)>>>>)>>>>),
   Obj(<<<<kEventData, Obj(<<<<kMessage, Obj(<<<<kSender, Str(FromOk)>>,
                                                 <<kRecipient, Str(ToExact)>>>>)>>>>)>>,
         <<kFrom, Str(FromOk)>>, <<kTo, Str(ToExact)>>, <<kSubject, Str(PlainSubject)>>>>),
   Obj(<<<<kSender, Str(FromOk)>>, <<kRecipient, Str(ToExact)>>, <<kSubject, Str(PlainSubject)>>,
         <<kBodyPlain, Str(QuotedShortText)>>>>),
   Obj(<<<<kRecipient, Str(ToMixedCase)>>, <<kSubject, Str(PlainSubject)>>,
         <<kMessage, Obj(<<<<kFrom, Str(FromOk)>>>>)>>>>),
   Obj(<<<<kSender, Str(FromOk)>>, <<kRecipient, Str(ToExact)>>>>)}

\* bodies of no known format
OtherBodies ==
  {Undef, Null, Num(42), Obj(<<>>),
   Obj(<<<<kSender, Num(123)>>>>),
   Obj(<<<<kSender, Str(FromOk)>>, <<kSubject, Str(PlainSubject)>>>>),
   Obj(<<<<kMessage, HeadersObj>>>>),
   Obj(<<<<<<"S", "e", "n", "d", "e", "r">>, Str(FromOk)>>, <<<<"R", "e", "c", "i", "p", "i", "e", "n", "t">>, Str(ToExact)>>>>)}

\* what a string body or a string element may be the JSON text of
JsonDocs ==
  {Null, Num(42), BaseBody, Obj(<<>>),
   SimpleBody(FromOk, ToMixedCase, <<"F", "w", "d", ":", " ", "u", "r", "g", "e", "n", "t">>, QuotedShortText),
   Obj(<<<<kHeaders, HeadersObj>>, <<kBodyPlain, Str(PlainText)>>>>),
   Obj(<<<<kMessage, Obj(<<<<kHeaders, HeadersObj>>>>)>>>>),
   Obj(<<<<kBodyPlain, Str(PlainText)>>>>)}

ParseError == [t |-> "error"]

\* JSON.parse(text): the value whose JSON text it is, or the thrown SyntaxError
JsonParse(text) ==
  LET Of(docs) == IF docs = {} THEN ParseError ELSE CHOOSE v \in docs : TRUE
  IN Of({v \in JsonDocs : JsonText(v) = text})

OpaqueLabelled == <<"F", "r", "o", "m", ":", " ", "a", "@", "b", ".", "c", "o", "\n", "T", "o", ":", " ", "A", "b", "@", "x", ".", "o", "r", "g", "\n", "S", "u", "b", "j", "e", "c", "t", ":", " ", "R", "e", "v", "i", "e", "w", " ", "p", "r", "o", "p", "o", "s", "a", "l", "\n", "\n", "T", "h", "e", " ", "p", "r", "o", "d", "u", "c", "t", "i", "o", "n", " ", "s", "e", "r", "v", "e", "r", " ", "i", "s", " ", "d", "o", "w", "n", ".">>

OpaqueQuoted == <<"{", "\"", "s", "e", "n", "d", "e", "r", "\"", ":", " ", "\"", "a", "@", "b", ".", "c", "o", "\"", ",", " ", "\"", "r", "e", "c", "i", "p", "i", "e", "n", "t", "\"", ":", " ", "\"", "a", "b", "@", "x", ".", "o", "r", "g", "\"", ",", " ", "\"", "s", "u", "b", "j", "e", "c", "t", "\"", ":", " ", "\"", "H", "i", "\"", ",", " ", "\"", "b", "o", "d", "y", "\"", ":", " ", "\"", "x", "\"", " ", "b", "r", "o", "k", "e", "n">>

StringBodies ==
  {Str(JsonText(v)) : v \in {Null, BaseBody, SimpleBody(FromOk, ToMixedCase, <<"F", "w", "d", ":", " ", "u", "r", "g", "e", "n", "t">>, QuotedShortText)}}
    \cup {Str(<<"h", "e", "l", "l", "o", " ", "w", "o", "r", "l", "d">>), Str(OpaqueLabelled), Str(OpaqueQuoted), Str(<<>>)}

\* thresholds of the array handling and of the pattern fallback
SmallArrayMax == 100

MassiveMin == 1000

FullRegexCeiling == 10000

SampleCap == 1000

SampleStride == 100

FallbackTextLimit == 50000

\* an opaque text one character longer than the limit of the fallback text
OpaqueLong == Pad(FallbackTextLimit + 1)

LongBodies == {Str(OpaqueLong)}

EmailItem ==
  Obj(<<<<kFrom, Str(FromOk)>>, <<kTo, Str(ToMixedCase)>>, <<kSubject, Str(PlainSubject)>>,
        <<kBodyPlain, Str(PlainText)>>>>)

\* an array of n elements, all 0 except the email object at index k
MassiveArray(n, k) == Arr(n, (k :> EmailItem), Num(0))

MassiveLens == {1500, 50000}

MassiveOffsets(n) == {0, 100, 150, n \div 2, (n \div 2) + 50, n - 1000, n - 1}

MassiveBodies == UNION {{MassiveArray(n, k) : k \in MassiveOffsets(n)} : n \in MassiveLens}

SampleText == <<"f", "r", "o", "m", ":", " ", "a", "@", "b", ".", "c", "o", ",", " ", "t", "o", ":", " ", "a", "b", "@", "x", ".", "o", "r", "g", ",", " ", "s", "u", "b", "j", "e", "c", "t", ":", " ", "\"", "H", "e", "l", "l", "o", " ", "t", "h", "e", "r", "e", "\"">>

\* lengths around the thresholds of the sampler
SampleLens == {1000, 1001, 1999, 2000, 9999, 10000, 10001, 20000}

ArrayBodies ==
  {Arr(3, (1 :> EmailItem), Num(0)),
   Arr(2, (0 :> Str(JsonText(BaseBody))), Num(0)),
   Arr(2, <<>>, Num(0)),
   Arr(150, (120 :> EmailItem), Num(0)),
   Arr(50000, (100 :> Str(JsonText(BaseBody))), Num(0)),
   Arr(50000, (200 :> Str(SampleText)), Num(0)),
   Arr(50000, (300 :> Obj(<<<<kSender, Str(FromOk)>>, <<kRecipient, Str(ToExact)>>>>)), Num(0)),
   Arr(50000, (30000 :> Obj(<<<<kSender, Str(FromOk)>>, <<kRecipient, Str(ToExact)>>>>)), Num(0)),
   Arr(1500, <<>>, Num(0)),
   Arr(50000, <<>>, Num(0))}
    \cup {Arr(n, <<>>, Num(0)) : n \in SampleLens}

ArrayLikeBodies ==
  {ArrayLike(2, (1 :> EmailItem), Num(0), <<>>),
   ArrayLike(3, (0 :> Obj(<<<<kHeaders, HeadersObj>>>>)), Num(0), <<>>),
   ArrayLike(3, (1 :> Obj(<<<<kMessage, Obj(<<<<kBodyPlain, Str(PlainText)>>>>)>>>>)
                 @@ 2 :> Obj(<<<<kMessage, Obj(<<<<kHeaders, HeadersObj>>>>)>>>>)), Num(0), <<>>),
   ArrayLike(2, (0 :> Str(JsonText(Obj(<<<<kBodyPlain, Str(PlainText)>>>>)))
                 @@ 1 :> Str(JsonText(Obj(<<<<kHeaders, HeadersObj>>, <<kBodyPlain, Str(PlainText)>>>>)))),
             Num(0), <<>>),
   ArrayLike(50000, (777 :> EmailItem), Num(0), <<>>),
   ArrayLike(1, (0 :> EmailItem), Num(0), <<<<<<"x">>, Num(1)>>, <<<<"y">>, Num(2)>>>>),
   ArrayLike(1, (0 :> EmailItem), Num(0), <<<<<<"x">>, Num(1)>>, <<<<"y">>, Num(2)>>, <<<<"z">>, Num(3)>>>>)}

Bodies == SimpleBodies \cup MailgunBodies \cup OtherBodies \cup StringBodies
            \cup ArrayBodies \cup MassiveBodies \cup ArrayLikeBodies \cup LongBodies

(***************************************************************************)
(* Payload normalizer: the first part of processEmailTask                  *)
(*                                                                         *)
(* An extraction state holds the handler's locals parsedBody (pb), from,   *)
(* to, subject, text, html, whether an exception escaped to the outer      *)
(* catch (threw), and what the handler logged on its way: the format used  *)
(* (stage), the arrays it serialized in full (serialized), the number of   *)
(* elements its element loops visited (scanned), the sampled indices       *)
(* (sampled), whether the pattern fallback ran (fallback) and on how much  *)
(* text (fallbackLen).                                                     *)
(***************************************************************************)
\* if (typeof req.body === 'string') try { parsedBody = JSON.parse(req.body) }
ParseBody(body) ==
  LET Or(parsed) == IF parsed # ParseError THEN parsed ELSE body
  IN IF IsString(body) THEN Or(JsonParse(body.v)) ELSE body

StartExtraction(body) ==
  [pb |-> ParseBody(body), from |-> Undef, to |-> Undef, subject |-> Undef,
   text |-> Undef, html |-> Undef, threw |-> FALSE, stage |-> "none",
   serialized |-> {}, scanned |-> 0, sampled |-> <<>>, fallback |-> FALSE, fallbackLen |-> 0]

\* item.from || item.to || item.subject || item.sender || item.recipient
HasEmailKeys(v) == \E k \in {kFrom, kTo, kSubject, kSender, kRecipient} : Truthy(Prop(v, k))

\* the email object an array element holds: the element itself, or the value
\* a string element parses to; undefined when it holds none
EmailObjectOf(item) ==
  LET Of(parsed) == IF IsObject(parsed) /\ HasEmailKeys(parsed) THEN parsed ELSE Undef
  IN IF IsObject(item) /\ HasEmailKeys(item) THEN item
     ELSE IF IsString(item) /\ Truthy(item) THEN Of(JsonParse(item.v))
     ELSE Undef

\* match ? match[1] : the value the variable already has
Keep(match, old) == IF match # Undef THEN match ELSE old

\* if (Array.isArray(parsedBody)) { ... }
ArrayPass(st) ==
  LET Found(hits) ==
        IF hits = {} THEN [st EXCEPT !.scanned = st.pb.n]
        ELSE [st EXCEPT !.pb = EmailObjectOf(Elem(st.pb, SetMin(hits))), !.scanned = SetMin(hits) + 1]
      \* the matches on arrayStr = JSON.stringify(parsedBody), by key
      Headers(m) ==
        [st EXCEPT !.from = Keep(m[kFrom], st.from),
                   !.to = Keep(m[kTo], st.to),
                   !.subject = Keep(m[kSubject], st.subject),
                   !.text = Keep(m[kBodyPlain], st.text),
                   !.html = Keep(m[kBodyHtml], st.html),
                   !.serialized = st.serialized \cup {st.pb.n}]
  IN IF st.pb.t # "arr" THEN st
     ELSE IF st.pb.n <= SmallArrayMax
     THEN Found({i \in 0..(st.pb.n - 1) : EmailObjectOf(Elem(st.pb, i)) # Undef})
     ELSE Headers([key \in {kFrom, kTo, kSubject, kBodyPlain, kBodyHtml} |->
                     KeyMatch(st.pb, key, TRUE, FALSE, JsonLen(st.pb))])

\* typeof h.key === 'string' ? h.key : old
Typed(h, key, old) == IF IsString(Prop(h, key)) THEN Prop(h, key) ELSE old

TakeHeaders(st, h) ==
  [st EXCEPT !.from = Typed(h, kFrom, st.from), !.to = Typed(h, kTo, st.to),
             !.subject = Typed(h, kSubject, st.subject)]

TakeBodies(st, m) ==
  [st EXCEPT !.text = Typed(m, kBodyPlain, st.text), !.html = Typed(m, kBodyHtml, st.html)]

IsObjectProp(v, key) == Truthy(Prop(v, key)) /\ IsObject(Prop(v, key))

\* one round of the loop over the items of an array-like object:
\* the new state and whether the loop breaks
ArrayLikeStep(st, item) ==
  LET Bodies1(st1) ==
        IF \E k \in {kFrom, kTo, kSubject} : Truthy(Prop(item, k))
        THEN [st |-> TakeHeaders(st1, item), brk |-> TRUE]
        ELSE [st |-> st1, brk |-> FALSE]
      Parsed(parsed) ==
        IF ~IsObject(parsed) THEN [st |-> st, brk |-> FALSE]
        ELSE IF IsObjectProp(parsed, kHeaders)
        THEN [st |-> TakeHeaders(st, Prop(parsed, kHeaders)), brk |-> TRUE]
        ELSE IF Truthy(Prop(parsed, kMessage)) /\ IsObjectProp(Prop(parsed, kMessage), kHeaders)
        THEN [st |-> TakeHeaders(st, Prop(Prop(parsed, kMessage), kHeaders)), brk |-> TRUE]
        ELSE [st |-> TakeBodies(st, parsed), brk |-> FALSE]
  IN IF IsObject(item)
     THEN IF IsObjectProp(item, kHeaders)
             /\ \E k \in {kFrom, kTo, kSubject} : Truthy(Prop(Prop(item, kHeaders), k))
          THEN [st |-> TakeHeaders(st, Prop(item, kHeaders)), brk |-> TRUE]
          ELSE IF IsObjectProp(item, kMessage) /\ IsObjectProp(Prop(item, kMessage), kHeaders)
          THEN [st |-> TakeHeaders(st, Prop(Prop(item, kMessage), kHeaders)), brk |-> TRUE]
          ELSE Bodies1(IF IsObjectProp(item, kMessage) THEN TakeBodies(st, Prop(item, kMessage)) ELSE st)
     ELSE IF IsString(item) /\ Truthy(item) THEN Parsed(JsonParse(item.v))
     ELSE [st |-> st, brk |-> FALSE]

\* for (let i = 0; i < orderedItems.length; i++): every element is visited
\* until one breaks the loop; the filler elements change nothing
RECURSIVE ArrayLikeScan(_, _, _)
ArrayLikeScan(st, v, idx) ==
  LET After(r) ==
        IF r.brk THEN [r.st EXCEPT !.scanned = Head(idx) + 1]
        ELSE ArrayLikeScan(r.st, v, Tail(idx))
  IN IF idx = <<>> THEN [st EXCEPT !.scanned = v.n]
     ELSE After(ArrayLikeStep(st, v.items[Head(idx)]))

\* numericKeys.length > 0 && numericKeys.length >= Math.floor(objectKeys.length * 0.5)
IsArrayLike(v) == v.t = "obj" /\ v.n > 0 /\ v.n >= (v.n + Len(v.props)) \div 2

\* if (!Array.isArray(parsedBody) && parsedBody && typeof parsedBody === 'object') { ... }
ArrayLikePass(st) ==
  IF IsArrayLike(st.pb) THEN ArrayLikeScan(st, st.pb, ItemIndices(st.pb)) ELSE st

\* the 'event-data' format
EventDataFormat(st, message) ==
  LET h == Prop(message, kHeaders) IN
  [st EXCEPT !.from = OrV(OptProp(h, kFrom), Prop(message, kFrom)),
             !.to = OrV(OptProp(h, kTo), Prop(message, kTo)),
             !.subject = OrV(OptProp(h, kSubject), Prop(message, kSubject)),
             !.text = OrV(OrV(Prop(message, kBodyPlain), Prop(message, kStrippedText)), Prop(message, kBody)),
             !.html = OrV(Prop(message, kBodyHtml), Prop(message, kStrippedHtml)),
             !.stage = "event-data"]

\* the 'recipient' format
RecipientFormat(st) ==
  [st EXCEPT !.from = OrV(Prop(st.pb, kSender), Prop(st.pb, kFrom)),
             !.to = OrV(Prop(st.pb, kRecipient), Prop(st.pb, kTo)),
             !.subject = Prop(st.pb, kSubject),
             !.text = OrV(OrV(OrV(Prop(st.pb, kBodyPlain), Prop(st.pb, kStrippedText)), Prop(st.pb, kBody)),
                          Prop(st.pb, kText)),
             !.html = OrV(OrV(Prop(st.pb, kBodyHtml), Prop(st.pb, kStrippedHtml)), Prop(st.pb, kHtml)),
             !.stage = "recipient"]

\* the simple format
SimpleFormat(st) ==
  [st EXCEPT !.from = Prop(st.pb, kFrom),
             !.to = Prop(st.pb, kTo),
             !.subject = Prop(st.pb, kSubject),
             !.text = OrV(OrV(Prop(st.pb, kText), Prop(st.pb, kBodyPlain)), Prop(st.pb, kStrippedText)),
             !.html = OrV(OrV(Prop(st.pb, kHtml), Prop(st.pb, kBodyHtml)), Prop(st.pb, kStrippedHtml)),
             !.stage = "simple"]

\* the indices start, start + 100, ... below stop
RECURSIVE Stride(_, _)
Stride(start, stop) ==
  IF start >= stop THEN <<>> ELSE <<start>> \o Stride(start + SampleStride, stop)

\* a sampler whose slices grow with the array: a tenth of it, with no cap
SampleIndices_Uncapped(n) ==
  LET sampleSize == n \div 10
      half == n \div 2
  IN Stride(0, sampleSize)
       \o Stride(half, Min2(half + sampleSize, n))
       \o Stride(Max2(0, n - sampleSize), n)

\* the indices of the samples taken from an array of n elements, in order:
\* from the beginning, the middle and the end
SampleIndices(n) ==
  LET sampleSize == Min2(SampleCap, n \div 10)
      half == n \div 2
  IN Stride(0, sampleSize)
       \o Stride(half, Min2(half + sampleSize, n))
       \o Stride(Max2(0, n - sampleSize), n)

\* the patterns applied to a string sample that mentions '@' and a field name
SamplePatterns(st, s) ==
  [st EXCEPT
     !.from = Keep(TrimV(LabelCapture(s, {<<"\"", "f", "r", "o", "m", "\"", ":">>, <<"f", "r", "o", "m", ":">>}, TRUE, "optional", "csv", TRUE)), st.from),
     !.to = Keep(TrimV(LabelCapture(s, {<<"\"", "t", "o", "\"", ":">>, <<"t", "o", ":">>}, TRUE, "optional", "csv", TRUE)), st.to),
     !.subject = Keep(TrimV(LabelCapture(s, {<<"\"", "s", "u", "b", "j", "e", "c", "t", "\"", ":">>, <<"s", "u", "b", "j", "e", "c", "t", ":">>}, TRUE, "required", "quote", FALSE)),
                      st.subject)]

HasAllThree(st) == Truthy(st.from) /\ Truthy(st.to) /\ Truthy(st.subject)

HasNoneOfThree(st) == ~Truthy(st.from) /\ ~Truthy(st.to) /\ ~Truthy(st.subject)

\* one round of the loop over the samples: the new state and emailFound
SampleStep(st, item) ==
  LET Patterns(matched) == [st |-> matched, found |-> HasAllThree(matched)]
      Parsed(parsed) ==
        IF IsObject(parsed) /\ HasEmailKeys(parsed)
        THEN [st |-> [st EXCEPT !.pb = parsed], found |-> TRUE]
        ELSE IF Includes(item.v, <<"@">>)
                /\ (Includes(item.v, kSubject) \/ Includes(item.v, kFrom) \/ Includes(item.v, kTo))
        THEN Patterns(SamplePatterns(st, item.v))
        ELSE [st |-> st, found |-> FALSE]
  IN IF IsString(item) /\ Truthy(item) THEN Parsed(JsonParse(item.v))
     ELSE IF IsObject(item) /\ HasEmailKeys(item)
     THEN [st |-> [st EXCEPT !.pb = item], found |-> TRUE]
     ELSE [st |-> st, found |-> FALSE]

\* for (const item of samples): stops at the first sample with email data
RECURSIVE SampleScan(_, _, _)
SampleScan(st, arr, idx) ==
  LET After(r) == IF r.found THEN r ELSE SampleScan(r.st, arr, Tail(idx))
  IN IF idx = <<>> THEN [st |-> st, found |-> FALSE]
     ELSE After(SampleStep(st, Elem(arr, Head(idx))))

\* if (Array.isArray(parsedBody) && parsedBody.length > 1000) { ... }
MassiveArrayPass(st) ==
  LET arr == st.pb
      \* the matches on arrayStr = JSON.stringify(parsedBody), by key
      LastResort(s, m) ==
        [s EXCEPT !.from = Keep(m[kFrom], s.from),
                  !.to = Keep(m[kTo], s.to),
                  !.subject = Keep(m[kSubject], s.subject),
                  !.serialized = s.serialized \cup {arr.n}]
      After(r) ==
        IF r.found THEN r.st
        ELSE IF arr.n < FullRegexCeiling
        THEN LastResort(r.st, [key \in {kFrom, kTo, kSubject} |->
                                 KeyMatch(arr, key, FALSE, key # kSubject, JsonLen(arr))])
        ELSE r.st
      Sample(indices) == After(SampleScan([st EXCEPT !.sampled = indices], arr, indices))
  IN IF ~(st.pb.t = "arr" /\ st.pb.n > MassiveMin) THEN st
     ELSE Sample(SampleIndices(arr.n))

\* 'standard extraction on processed body'
StandardExtraction(st) ==
  IF HasNoneOfThree(st) /\ st.pb.t = "obj"
  THEN [st EXCEPT !.from = OrV(Prop(st.pb, kSender), Prop(st.pb, kFrom)),
                  !.to = OrV(Prop(st.pb, kRecipient), Prop(st.pb, kTo)),
                  !.subject = Prop(st.pb, kSubject),
                  !.text = OrV(OrV(OrV(Prop(st.pb, kBodyPlain), Prop(st.pb, kStrippedText)), Prop(st.pb, kBody)),
                               Prop(st.pb, kText)),
                  !.html = OrV(OrV(Prop(st.pb, kBodyHtml), Prop(st.pb, kStrippedHtml)), Prop(st.pb, kHtml))]
  ELSE st

\* the first pattern of a list that matches the text s
RECURSIVE FirstPattern(_, _, _, _, _, _)
FirstPattern(s, labels, ci, quote, class, needAt) ==
  IF labels = <<>> THEN Undef
  ELSE LET Or(match) ==
             IF match # Undef THEN match
             ELSE FirstPattern(s, Tail(labels), ci, Tail(quote), Tail(class), needAt)
       IN Or(LabelCapture(s, {Head(labels)}, ci, quote[1], class[1], needAt))

\* the address patterns: "key":"...@...", then key: ...@... without quotes
AddressPatterns(s, key1, key2) ==
  FirstPattern(s, <<<<"\"">> \o key1 \o <<"\"", ":">>, <<"\"">> \o key2 \o <<"\"", ":">>,
                    key1 \o <<":">>, key2 \o <<":">>>>,
               TRUE, <<"required", "required", "none", "none">>,
               <<"quote", "quote", "token", "token">>, TRUE)

QuotedKey(key) == <<"\"">> \o key \o <<"\"", ":">>

\* the final fallback on the text of a string body
TextFallback(st, s) ==
  LET subject == FirstPattern(s, <<QuotedKey(kSubject), kSubject \o <<":">>>>, TRUE,
                              <<"required", "none">>, <<"quote", "line">>, FALSE)
      text == FirstPattern(s, <<QuotedKey(kBodyPlain), QuotedKey(kStrippedText), QuotedKey(kBody),
                                QuotedKey(kText)>>, FALSE,
                           <<"required", "required", "required", "required">>,
                           <<"quote", "quote", "quote", "quote">>, FALSE)
  IN [st EXCEPT !.from = Keep(TrimV(AddressPatterns(s, kFrom, kSender)), st.from),
                !.to = Keep(TrimV(AddressPatterns(s, kTo, kRecipient)), st.to),
                !.subject = Keep(TrimV(subject), st.subject),
                !.text = IF ~Truthy(st.text) /\ ~Truthy(st.html) THEN Keep(text, st.text) ELSE st.text,
                !.fallback = TRUE, !.fallbackLen = Len(s)]

\* the final fallback on JSON.stringify(parsedBody).substring(0, 50000); the
\* patterns without quotes (from: ..., subject: ...) match nothing there as long
\* as no string of the payload contains such a label, which holds of Bodies
JsonFallback(st) ==
  LET lim == FallbackTextLimit IN
  [st EXCEPT !.from = Keep(TrimV(KeyMatchFirst(st.pb, <<kFrom, kSender>>, TRUE, TRUE, lim)), st.from),
             !.to = Keep(TrimV(KeyMatchFirst(st.pb, <<kTo, kRecipient>>, TRUE, TRUE, lim)), st.to),
             !.subject = Keep(TrimV(KeyMatch(st.pb, kSubject, TRUE, FALSE, lim)), st.subject),
             !.text = IF ~Truthy(st.text) /\ ~Truthy(st.html)
                      THEN Keep(KeyMatchFirst(st.pb, <<kBodyPlain, kStrippedText, kBody, kText>>,
                                              FALSE, FALSE, lim), st.text)
                      ELSE st.text,
             !.fallback = TRUE, !.fallbackLen = Min2(JsonLen(st.pb), lim)]

\* 'Final fallback: look for common email fields in the entire body'
FinalFallback(st) ==
  IF ~HasNoneOfThree(st) THEN st
  ELSE IF IsString(st.pb) THEN TextFallback(st, st.pb.v)
  ELSE JsonFallback(st)

\* from ? `${from.substring(0, 20)}...` : undefined -- a TypeError when the
\* value is truthy and not a string
LogFallback(st) ==
  IF \E v \in {st.from, st.to, st.subject} : Truthy(v) /\ ~IsString(v)
  THEN [st EXCEPT !.threw = TRUE] ELSE st

\* the else branch: 'Trying to extract from any available fields...'
AnyFields(st) ==
  LogFallback(FinalFallback(StandardExtraction(MassiveArrayPass([st EXCEPT !.stage = "any"]))))

\* the if / else-if chain over the formats; reading a property of a null or
\* undefined parsedBody throws
Formats(st) ==
  IF st.pb.t \in {"undef", "null"} THEN [st EXCEPT !.threw = TRUE]
  ELSE IF Truthy(Prop(st.pb, kEventData)) /\ Truthy(Prop(Prop(st.pb, kEventData), kMessage))
  THEN EventDataFormat(st, Prop(Prop(st.pb, kEventData), kMessage))
  ELSE IF Truthy(Prop(st.pb, kRecipient)) THEN RecipientFormat(st)
  ELSE IF \E k \in {kFrom, kTo, kSubject} : Truthy(Prop(st.pb, k)) THEN SimpleFormat(st)
  ELSE AnyFields(st)

\* the normalizer: from the request body to from, to, subject, text, html
Normalize(body) == Formats(ArrayLikePass(ArrayPass(StartExtraction(body))))

(***************************************************************************)
(* The HTTP handler processEmailTask                                       *)
(*                                                                         *)
(* users is the set of ids of the documents of the 'users' collection,     *)
(* tasks the sequence of documents added to users/{id}/tasks, today the    *)
(* date of the server clock.  reqs maps a request to its method, body,     *)
(* position in the handler (pc: start, lookup, scan, create, done), the    *)
(* handler's locals and the response sent.                                 *)
(***************************************************************************)
\* the sanitized fields of an extraction
Sanitized(st) ==
  [from |-> validateAndSanitizeEmail(CharsOf(st.from)),
   to |-> validateAndSanitizeEmail(CharsOf(st.to)),
   subject |-> sanitizeSubject(CharsOf(st.subject)),
   text |-> sanitizeTextContent(CharsOf(st.text)),
   html |-> sanitizeTextContent(CharsOf(st.html))]

NoResponse == [status |-> 0, error |-> "", details |-> <<>>]

NoDraft == [title |-> <<>>]

\* no write was attempted or none failed
NoFailure == [isError |-> FALSE, words |-> {"none"}]

NewRequest(method, body) ==
  LET New(st) ==
        [method |-> method, body |-> body, pc |-> "start", resp |-> NoResponse, sent |-> 0,
         norm |-> st, clean |-> Sanitized(st),
         userId |-> NoStr, actualUserId |-> NoStr, draft |-> NoDraft, taskId |-> 0,
         failure |-> NoFailure]
  IN New(StartExtraction(Undef))

\* res.status(status).json({success, error, details}) / .send(...)
Respond(q, status, error, details) ==
  [q EXCEPT !.resp = [status |-> status, error |-> error, details |-> details],
            !.sent = q.sent + 1, !.pc = "done"]

\* the marks of the console log: sanitized ? 'valid' : 'invalid'
FieldState_AsLogged(v) == IF v = NoStr \/ v = <<>> THEN "invalid" ELSE "valid"

\* !sanitized ? 'missing or invalid' : 'ok'
FieldState(v) == IF v = NoStr \/ v = <<>> THEN "missing or invalid" ELSE "ok"

\* order of the document ids in a collection snapshot: by code unit
CharOrder == DigitChars \o UpperChars \o LowerChars

CharCode(c) == CHOOSE i \in 1..Len(CharOrder) : CharOrder[i] = c

IdLess(a, b) ==
  \/ \E i \in 1..Min2(Len(a), Len(b)) :
        /\ \A j \in 1..(i-1) : a[j] = b[j]
        /\ CharCode(a[i]) < CharCode(b[i])
  \/ Len(a) < Len(b) /\ SubSeq(b, 1, Len(a)) = a

RECURSIVE SnapshotDocs(_)
SnapshotDocs(S) ==
  IF S = {} THEN <<>>
  ELSE LET first == CHOOSE a \in S : \A b \in S \ {a} : IdLess(a, b)
       IN <<first>> \o SnapshotDocs(S \ {first})

\* a find that compares the ids as they are
FindUser_ExactOnly(docs, userId) ==
  LET hits == {i \in 1..Len(docs) : docs[i] = userId} IN
  IF hits = {} THEN NoStr ELSE docs[SetMin(hits)]

\* usersSnapshot.docs.find(doc => doc.id.toLowerCase() === userId.toLowerCase())
FindUser(docs, userId) ==
  LET hits == {i \in 1..Len(docs) : ToLower(docs[i]) = ToLower(userId)} IN
  IF hits = {} THEN NoStr ELSE docs[SetMin(hits)]

\* the synchronous first part of a POST: normalize, sanitize, validate,
\* extract the user id; ends with a response or at the first store read
ReceivePost(q) ==
  LET Validated(q2, c, userId) ==
        IF c.from = NoStr \/ c.to = NoStr \/ c.subject = <<>>
        THEN Respond(q2, 400, "Missing or invalid required email fields",
                     [from |-> FieldState(c.from), to |-> FieldState(c.to), subject |-> FieldState(c.subject)])
        ELSE IF userId = NoStr
        THEN Respond(q2, 400, "Invalid email address format", [email |-> c.to])
        ELSE [q2 EXCEPT !.userId = userId, !.actualUserId = userId, !.pc = "lookup"]
      Cleaned(q1, c) == Validated([q1 EXCEPT !.clean = c], c, extractUserIdFromEmail(c.to))
      \* parsedBody is not read after the normalizer
      Normalized(st) ==
        IF st.threw
        THEN Respond([q EXCEPT !.norm = [st EXCEPT !.pb = Undef]], 500,
                     "Internal server error while processing email", <<>>)
        ELSE Cleaned([q EXCEPT !.norm = [st EXCEPT !.pb = Undef]], Sanitized(st))
  IN Normalized(Normalize(q.body))

\* a handler that answers 405 and goes on without returning
Receive_NoReturn(r) ==
  /\ reqs[r].pc = "start"
  /\ reqs' = [reqs EXCEPT ![r] =
       IF reqs[r].method = "OPTIONS" THEN Respond(reqs[r], 204, "", <<>>)
       ELSE IF reqs[r].method # "POST"
       THEN ReceivePost(Respond(reqs[r], 405, "Method not allowed", <<>>))
       ELSE ReceivePost(reqs[r])]
  /\ UNCHANGED <<users, tasks, today, hook, run>>

\* the handler up to its first await
Receive(r) ==
  /\ reqs[r].pc = "start"
  /\ reqs' = [reqs EXCEPT ![r] =
       IF reqs[r].method = "OPTIONS" THEN Respond(reqs[r], 204, "", <<>>)
       ELSE IF reqs[r].method # "POST" THEN Respond(reqs[r], 405, "Method not allowed", <<>>)
       ELSE ReceivePost(reqs[r])]
  /\ UNCHANGED <<users, tasks, today, hook, run>>

\* a preparation whose draft depends on the tasks already in the store
PrepareTask_StoreDependent(q, actualUserId) ==
  LET Parsed(q1, draft) ==
        IF draft = ParseFault
        THEN Respond(q1, 500, "Error parsing email content", [error |-> "Invalid time value"])
        ELSE IF Trim(draft.title) = <<>>
        THEN Respond([q1 EXCEPT !.draft = draft], 500, "Failed to create task in database",
                     [userId |-> q.userId, message |-> "Task title is required"])
        ELSE IF draft.importance < 1 \/ draft.importance > 10
        THEN Respond([q1 EXCEPT !.draft = draft], 500, "Failed to create task in database",
                     [userId |-> q.userId, message |-> "Task importance must be a number between 1 and 10"])
        ELSE [q1 EXCEPT !.draft = draft, !.pc = "create"]
  IN Parsed([q EXCEPT !.actualUserId = actualUserId],
            parseEmailToTask([from |-> q.clean.from, to |-> q.clean.to,
                              subject |-> IF tasks = <<>> THEN q.clean.subject ELSE DefaultTitle,
                              text |-> q.clean.text, html |-> q.clean.html, receivedAt |-> today], today))

\* after the user is found: parseEmailToTask, then the validation of taskData
\* before the write; a failed validation throws into the catch of the write
PrepareTask(q, actualUserId) ==
  LET Parsed(q1, draft) ==
        IF draft = ParseFault
        THEN Respond(q1, 500, "Error parsing email content", [error |-> "Invalid time value"])
        ELSE IF Trim(draft.title) = <<>>
        THEN Respond([q1 EXCEPT !.draft = draft], 500, "Failed to create task in database",
                     [userId |-> q.userId, message |-> "Task title is required"])
        ELSE IF draft.importance < 1 \/ draft.importance > 10
        THEN Respond([q1 EXCEPT !.draft = draft], 500, "Failed to create task in database",
                     [userId |-> q.userId, message |-> "Task importance must be a number between 1 and 10"])
        ELSE [q1 EXCEPT !.draft = draft, !.pc = "create"]
  IN Parsed([q EXCEPT !.actualUserId = actualUserId],
            parseEmailToTask([from |-> q.clean.from, to |-> q.clean.to, subject |-> q.clean.subject,
                              text |-> q.clean.text, html |-> q.clean.html, receivedAt |-> today], today))

DatabaseError(q) == Respond(q, 500, "Database error while checking user", [userId |-> q.userId])

\* await db.collection('users').doc(userId).get()
LookupExact(r) ==
  /\ reqs[r].pc = "lookup"
  /\ \E ok \in BOOLEAN :
       reqs' = [reqs EXCEPT ![r] =
         IF ~ok THEN DatabaseError(reqs[r])
         ELSE IF reqs[r].userId \in users THEN PrepareTask(reqs[r], reqs[r].userId)
         ELSE [reqs[r] EXCEPT !.pc = "scan"]]
  /\ UNCHANGED <<users, tasks, today, hook, run>>

\* await db.collection('users').get(), then the case-insensitive find
LookupScan(r) ==
  /\ reqs[r].pc = "scan"
  /\ \E ok \in BOOLEAN :
       reqs' = [reqs EXCEPT ![r] =
         IF ~ok THEN DatabaseError(reqs[r])
         ELSE LET Found(docs, match) ==
                    IF match # NoStr THEN PrepareTask(reqs[r], match)
                    ELSE Respond(reqs[r], 404, "User not found",
                                 [requestedUserId |-> reqs[r].userId,
                                  availableUsers |-> SubSeq(docs, 1, Min2(5, Len(docs)))])
                  In(docs) == Found(docs, FindUser(docs, reqs[r].userId))
              IN In(SnapshotDocs(users))]
  /\ UNCHANGED <<users, tasks, today, hook, run>>

\* what the write may throw: an Error whose message may mention permission,
\* quota or limit, or a value that is not an Error
WriteFailures ==
  [isError : {TRUE}, words : SUBSET {"permission", "quota", "limit"}]
    \cup {[isError |-> FALSE, words |-> {}]}

\* the catch of the write with the quota test before the permission test
WriteFailed_QuotaFirst(q, f) ==
  IF ~f.isError
  THEN Respond(q, 500, "Unknown error while creating task", [userId |-> q.userId])
  ELSE IF "quota" \in f.words \/ "limit" \in f.words
  THEN Respond(q, 429, "Database quota exceeded", [userId |-> q.userId, message |-> f.words])
  ELSE IF "permission" \in f.words
  THEN Respond(q, 403, "Permission denied while creating task", [userId |-> q.userId, message |-> f.words])
  ELSE Respond(q, 500, "Failed to create task in database", [userId |-> q.userId, message |-> f.words])

\* the catch of the write: the response by the message of what was thrown
WriteFailed(q, f) ==
  IF ~f.isError
  THEN Respond(q, 500, "Unknown error while creating task", [userId |-> q.userId])
  ELSE IF "permission" \in f.words
  THEN Respond(q, 403, "Permission denied while creating task", [userId |-> q.userId, message |-> f.words])
  ELSE IF "quota" \in f.words \/ "limit" \in f.words
  THEN Respond(q, 429, "Database quota exceeded", [userId |-> q.userId, message |-> f.words])
  ELSE Respond(q, 500, "Failed to create task in database", [userId |-> q.userId, message |-> f.words])

\* taskData with the user id as extracted from the address
TaskData_Requested(q) == [draft |-> q.draft, status |-> "open", userId |-> q.userId]

\* taskData: the draft, status 'open' and the case-corrected user id
TaskData(q) == [draft |-> q.draft, status |-> "open", userId |-> q.actualUserId]

\* a write to one fixed document per user: .doc('inbox').set(taskData)
CreateTask_Overwrite(r) ==
  /\ reqs[r].pc = "create"
  /\ \/ LET Kept(kept) ==
              /\ tasks' = Append(kept, [path |-> reqs[r].actualUserId, request |-> r,
                                        data |-> TaskData(reqs[r])])
              /\ reqs' = [reqs EXCEPT ![r] =
                   Respond([reqs[r] EXCEPT !.taskId = Len(kept) + 1], 200,
                           "", [taskId |-> Len(kept) + 1, title |-> reqs[r].draft.title,
                                area |-> reqs[r].draft.area, importance |-> reqs[r].draft.importance,
                                status |-> "open"])]
        IN Kept(SelectSeq(tasks, LAMBDA t : t.path # reqs[r].actualUserId))
     \/ /\ \E f \in WriteFailures :
             reqs' = [reqs EXCEPT ![r] = WriteFailed([reqs[r] EXCEPT !.failure = f], f)]
        /\ UNCHANGED tasks
  /\ UNCHANGED <<users, today, hook, run>>

\* await db.collection('users').doc(actualUserId).collection('tasks').add(taskData)
CreateTask(r) ==
  /\ reqs[r].pc = "create"
  /\ \/ /\ tasks' = Append(tasks, [path |-> reqs[r].actualUserId, request |-> r,
                                   data |-> TaskData(reqs[r])])
        /\ reqs' = [reqs EXCEPT ![r] =
             Respond([reqs[r] EXCEPT !.taskId = Len(tasks) + 1], 200,
                     "", [taskId |-> Len(tasks) + 1, title |-> reqs[r].draft.title,
                          area |-> reqs[r].draft.area, importance |-> reqs[r].draft.importance,
                          status |-> "open"])]
     \/ /\ \E f \in WriteFailures :
             reqs' = [reqs EXCEPT ![r] = WriteFailed([reqs[r] EXCEPT !.failure = f], f)]
        /\ UNCHANGED tasks
  /\ UNCHANGED <<users, today, hook, run>>

Methods == {"OPTIONS", "GET", "POST"}

\* the requests of the model: every payload by POST, one by the other methods
Requests ==
  {NewRequest("POST", b) : b \in Bodies}
    \cup {NewRequest(m, BaseBody) : m \in Methods \ {"POST"}}

\* server dates: an ordinary day, the last days of a month and of the year
Dates == {MkDate(2024, 2, 28), MkDate(2024, 12, 31)}

\* useTasks before it is mounted: useState([]), useState(true), useState(null);
\* store lists the documents of users/{uid}/tasks, oldest first
Unmounted ==
  [signedIn |-> FALSE, tasks |-> <<>>, loading |-> TRUE, error |-> "null",
   store |-> <<>>, added |-> 0, calls |-> <<>>]

\* no scheduled function is running
NoRun ==
  [kind |-> "none", pc |-> "idle", snapshot |-> <<>>, queue |-> <<>>, openTasks |-> 0,
   visited |-> <<>>, notified |-> <<>>, errors |-> <<>>, raised |-> FALSE]

\* the long payloads, which hold no address, come with one store and one date
Init ==
  /\ users \in UserStores
  /\ tasks = <<>>
  /\ today \in Dates
  /\ reqs \in [{1} -> Requests]
  /\ reqs[1].body \in LongBodies => users = {} /\ today = MkDate(2024, 2, 28)
  /\ hook = Unmounted
  /\ run = NoRun

Next ==
  \E r \in DOMAIN reqs :
    \/ Receive(r)
    \/ LookupExact(r)
    \/ LookupScan(r)
    \/ CreateTask(r)

Spec == Init /\ [][Next]_vars

\* the payloads delivered twice
TwiceBodies ==
  {SimpleBody(FromOk, to, PlainSubject, PlainText) : to \in {ToExact, ToMixedCase, ToUnknown, ToMalformed}}
    \cup {StampedBody,
          SimpleBody(FromOk, ToMixedCase, <<"R", "e", ":", " ", "i", "m", "p", "o", "r", "t", "a", "n", "t", " ", "-", " ", "c", "a", "l", "l", " ", "t", "o", "m", "o", "r", "r", "o", "w">>, QuotedShortText),
          Undef, Str(OpaqueLabelled)}

\* the same payload posted in two requests, handled in any interleaving
InitTwice ==
  /\ users \in UserStores
  /\ tasks = <<>>
  /\ today \in Dates
  /\ \E b \in TwiceBodies : reqs = [i \in {1, 2} |-> NewRequest("POST", b)]
  /\ hook = Unmounted
  /\ run = NoRun

SpecTwice == InitTwice /\ [][Next]_vars

\* two different payloads addressed to one user
PairBodies ==
  {BaseBody, StampedBody,
   SimpleBody(FromOk, ToMixedCase, <<"u", "r", "g", "e", "n", "t", ":", " ", "c", "a", "l", "l", " ", "t", "o", "m", "o", "r", "r", "o", "w">>, QuotedShortText)}

\* two requests with different payloads, handled in any interleaving
InitPair ==
  /\ users \in UserStores
  /\ tasks = <<>>
  /\ today \in Dates
  /\ \E b1 \in PairBodies : \E b2 \in PairBodies \ {b1} :
       reqs = (1 :> NewRequest("POST", b1)) @@ (2 :> NewRequest("POST", b2))
  /\ hook = Unmounted
  /\ run = NoRun

SpecPair == InitPair /\ [][Next]_vars

(***************************************************************************)
(* The useTasks hook                                                       *)
(*                                                                         *)
(* hook holds the React state of useTasks (tasks, loading, error), the     *)
(* documents of users/{uid}/tasks (their ids, oldest first), the number of *)
(* documents ever added, and the calls of loadTasks, createTask and        *)
(* deleteTask made so far.  A call is at "request" while the store has not *)
(* served what it awaits, at "resolved" or "rejected" once the store has   *)
(* and the function has not resumed, at "notify" while createTask awaits   *)
(* notifyTaskCreated, and at "done", "failed" or "returned" at its end.    *)
(***************************************************************************)
\* calls of the hook's functions in one behaviour
MaxCalls == 3

\* documents in the store when the hook is mounted
MaxStored == 1

NewCall(op, taskId, pc) == [op |-> op, taskId |-> taskId, pc |-> pc, fetched |-> <<>>]

\* orderBy('dateNoted', 'desc')
RECURSIVE NewestFirst(_)
NewestFirst(docs) ==
  IF docs = <<>> THEN <<>> ELSE NewestFirst(Tail(docs)) \o <<Head(docs)>>

CallAt(c, op, pcs) ==
  /\ c \in 1..Len(hook.calls)
  /\ hook.calls[c].op = op
  /\ hook.calls[c].pc \in pcs

\* loadTasks up to its await: called by the effect on mount and by the page
loadTasks ==
  /\ hook.calls # <<>> \/ hook.signedIn
  /\ Len(hook.calls) < MaxCalls
  /\ hook' = IF ~hook.signedIn
             THEN [hook EXCEPT !.calls = Append(@, NewCall("loadTasks", 0, "returned"))]
             ELSE [hook EXCEPT !.loading = TRUE, !.error = "null",
                               !.calls = Append(@, NewCall("loadTasks", 0, "request"))]
  /\ UNCHANGED <<users, tasks, today, reqs, run>>

\* the effect of a hook mounted without a user: setTasks([])
MountSignedOut ==
  /\ ~hook.signedIn /\ hook.calls = <<>>
  /\ hook' = [hook EXCEPT !.tasks = <<>>, !.calls = Append(@, NewCall("effect", 0, "returned"))]
  /\ UNCHANGED <<users, tasks, today, reqs, run>>

\* createTask up to its await
createTask ==
  /\ hook.calls # <<>>
  /\ Len(hook.calls) < MaxCalls
  /\ hook' = IF ~hook.signedIn
             THEN [hook EXCEPT !.calls = Append(@, NewCall("createTask", 0, "failed"))]
             ELSE [hook EXCEPT !.error = "null",
                               !.calls = Append(@, NewCall("createTask", 0, "request"))]
  /\ UNCHANGED <<users, tasks, today, reqs, run>>

\* deleteTask(taskId) up to its await, for a task of the list
deleteTask(taskId) ==
  /\ hook.calls # <<>>
  /\ taskId \in Range(hook.tasks)
  /\ Len(hook.calls) < MaxCalls
  /\ hook' = IF ~hook.signedIn
             THEN [hook EXCEPT !.calls = Append(@, NewCall("deleteTask", taskId, "failed"))]
             ELSE [hook EXCEPT !.error = "null",
                               !.calls = Append(@, NewCall("deleteTask", taskId, "request"))]
  /\ UNCHANGED <<users, tasks, today, reqs, run>>

\* the store serves what a call awaits, or fails to: getDocs of the query,
\* addDoc under a new id, deleteDoc
StoreServes(c) ==
  /\ c \in 1..Len(hook.calls)
  /\ hook.calls[c].pc = "request"
  /\ \E ok \in BOOLEAN :
       hook' =
         IF ~ok THEN [hook EXCEPT !.calls[c].pc = "rejected"]
         ELSE IF hook.calls[c].op = "loadTasks"
         THEN [hook EXCEPT !.calls[c].pc = "resolved",
                           !.calls[c].fetched = NewestFirst(hook.store)]
         ELSE IF hook.calls[c].op = "createTask"
         THEN [hook EXCEPT !.calls[c].pc = "resolved",
                           !.calls[c].taskId = hook.added + 1,
                           !.store = Append(@, hook.added + 1),
                           !.added = @ + 1]
         ELSE [hook EXCEPT !.calls[c].pc = "resolved",
                           !.store = SelectSeq(@, LAMBDA t : t # hook.calls[c].taskId)]
  /\ UNCHANGED <<users, tasks, today, reqs, run>>

\* loadTasks after its await: setTasks(fetchedTasks) or setError, then
\* setLoading(false)
loadTasksResumed(c) ==
  /\ CallAt(c, "loadTasks", {"resolved", "rejected"})
  /\ hook' = IF hook.calls[c].pc = "resolved"
             THEN [hook EXCEPT !.tasks = hook.calls[c].fetched, !.loading = FALSE,
                               !.calls[c].pc = "done"]
             ELSE [hook EXCEPT !.error = "Failed to load tasks", !.loading = FALSE,
                               !.calls[c].pc = "failed"]
  /\ UNCHANGED <<users, tasks, today, reqs, run>>

\* createTask after addDoc: setTasks(prev => [newTask, ...prev]), then the
\* await of notifyTaskCreated; or setError and the rethrow
createTaskResumed(c) ==
  /\ CallAt(c, "createTask", {"resolved", "rejected"})
  /\ hook' = IF hook.calls[c].pc = "resolved"
             THEN [hook EXCEPT !.tasks = <<hook.calls[c].taskId>> \o @, !.calls[c].pc = "notify"]
             ELSE [hook EXCEPT !.error = "Failed to create task", !.calls[c].pc = "failed"]
  /\ UNCHANGED <<users, tasks, today, reqs, run>>

\* createTask after notifyTaskCreated: return newTask, or setError and rethrow
createTaskNotified(c) ==
  /\ CallAt(c, "createTask", {"notify"})
  /\ \E ok \in BOOLEAN :
       hook' = IF ok THEN [hook EXCEPT !.calls[c].pc = "done"]
               ELSE [hook EXCEPT !.error = "Failed to create task", !.calls[c].pc = "failed"]
  /\ UNCHANGED <<users, tasks, today, reqs, run>>

\* deleteTask after deleteDoc: setTasks(prev => prev.filter(...)), or setError
\* and the rethrow
deleteTaskResumed(c) ==
  /\ CallAt(c, "deleteTask", {"resolved", "rejected"})
  /\ hook' = IF hook.calls[c].pc = "resolved"
             THEN [hook EXCEPT !.tasks = SelectSeq(@, LAMBDA t : t # hook.calls[c].taskId),
                               !.calls[c].pc = "done"]
             ELSE [hook EXCEPT !.error = "Failed to delete task", !.calls[c].pc = "failed"]
  /\ UNCHANGED <<users, tasks, today, reqs, run>>

\* the hook as mounted, with or without a signed-in user
InitHook ==
  /\ users = {}
  /\ tasks = <<>>
  /\ today = MkDate(2024, 2, 28)
  /\ reqs = <<>>
  /\ run = NoRun
  /\ \E signedIn \in BOOLEAN : \E k \in 0..MaxStored :
       hook = [Unmounted EXCEPT !.signedIn = signedIn,
                                !.store = [i \in 1..k |-> i], !.added = k]

NextHook ==
  \/ loadTasks
  \/ MountSignedOut
  \/ createTask
  \/ \E t \in 1..(MaxStored + MaxCalls) : deleteTask(t)
  \/ \E c \in 1..MaxCalls :
       \/ StoreServes(c)
       \/ loadTasksResumed(c)
       \/ createTaskResumed(c)
       \/ createTaskNotified(c)
       \/ deleteTaskResumed(c)

SpecHook == InitHook /\ [][NextHook]_vars

(***************************************************************************)
(* The scheduled notification runs                                         *)
(*                                                                         *)
(* run holds one run of morningNotification, afternoonReminder,            *)
(* eveningSummary or checkOverdueTasks: the ids of the users snapshot, the *)
(* users still to come (the first of them being processed), the open tasks *)
(* found for the user in hand, the users whose processing was begun, the   *)
(* users notified, the errors logged, and whether the run raised.          *)
(***************************************************************************)
RunKinds == {"morningNotification", "afternoonReminder", "eveningSummary", "checkOverdueTasks"}

\* open tasks a query may find for a user
MaxOpenTasks == 1

\* the for loop moves on to the next user, or the run ends
NextUser(q) ==
  IF Len(q.queue) > 1
  THEN [q EXCEPT !.queue = Tail(@), !.visited = Append(@, q.queue[2]), !.openTasks = 0, !.pc = "query"]
  ELSE [q EXCEPT !.queue = <<>>, !.pc = "done"]

\* the catch of the run: console.error, and the run ends
RunCaught(q, what) == [q EXCEPT !.errors = Append(@, what), !.pc = "done"]

\* whether the run notifies a user with n open tasks
Notifies(kind, n) == kind \in {"morningNotification", "eveningSummary"} \/ n > 0

\* const usersSnapshot = await db.collection('users').get(), and the first
\* turn of the loop
UsersFetched ==
  /\ run.pc = "start"
  /\ \E ok \in BOOLEAN :
       run' = IF ~ok THEN RunCaught(run, "users")
              ELSE LET Begin(docs) ==
                         IF docs = <<>> THEN [run EXCEPT !.pc = "done"]
                         ELSE [run EXCEPT !.snapshot = docs, !.queue = docs,
                                          !.visited = <<docs[1]>>, !.pc = "query"]
                   IN Begin(SnapshotDocs(users))
  /\ UNCHANGED <<users, tasks, today, reqs, hook>>

\* await getTasksForDate(userId, today) / await getOverdueTasks(userId)
TasksQueried ==
  /\ run.pc = "query"
  /\ \E ok \in BOOLEAN : \E n \in 0..MaxOpenTasks :
       run' = IF ~ok THEN RunCaught(run, "query")
              ELSE IF run.kind = "eveningSummary" THEN [run EXCEPT !.openTasks = n, !.pc = "tomorrow"]
              ELSE IF Notifies(run.kind, n) THEN [run EXCEPT !.openTasks = n, !.pc = "token"]
              ELSE NextUser(run)
  /\ UNCHANGED <<users, tasks, today, reqs, hook>>

\* eveningSummary: await getTasksForDate(userId, tomorrow)
TomorrowQueried ==
  /\ run.pc = "tomorrow"
  /\ \E ok \in BOOLEAN : \E n \in 0..MaxOpenTasks :
       run' = IF ~ok THEN RunCaught(run, "query")
              ELSE [run EXCEPT !.openTasks = @ + n, !.pc = "token"]
  /\ UNCHANGED <<users, tasks, today, reqs, hook>>

\* sendNotificationToUser: the read of the user's document; what it throws is
\* caught there
TokenRead ==
  /\ run.pc = "token"
  /\ \E outcome \in {"token", "no token", "throws"} :
       run' = IF outcome = "token" THEN [run EXCEPT !.pc = "send"]
              ELSE IF outcome = "no token" THEN NextUser(run)
              ELSE NextUser([run EXCEPT !.errors = Append(@, "token")])
  /\ UNCHANGED <<users, tasks, today, reqs, hook>>

\* sendNotificationToUser: await messaging.send(message); what it throws is
\* caught there
MessageSent ==
  /\ run.pc = "send"
  /\ \E ok \in BOOLEAN :
       run' = IF ok THEN NextUser([run EXCEPT !.notified = Append(@, run.queue[1])])
              ELSE NextUser([run EXCEPT !.errors = Append(@, "send")])
  /\ UNCHANGED <<users, tasks, today, reqs, hook>>

\* one of the scheduled functions is started on a user store
InitRun ==
  /\ users \in UserStores
  /\ tasks = <<>>
  /\ today = MkDate(2024, 2, 28)
  /\ reqs = <<>>
  /\ hook = Unmounted
  /\ \E kind \in RunKinds : run = [NoRun EXCEPT !.kind = kind, !.pc = "start"]

NextRun ==
  \/ UsersFetched
  \/ TasksQueried
  \/ TomorrowQueried
  \/ TokenRead
  \/ MessageSent

SpecRun == InitRun /\ [][NextRun]_vars

(***************************************************************************)
(* Properties                                                              *)
(***************************************************************************)
\* a POST the handler has started on
Posted(r) == reqs[r].method = "POST" /\ reqs[r].pc # "start"

\* the tasks a request added
TasksOf(r) == {i \in 1..Len(tasks) : tasks[i].request = r}

\* a draft was produced or a task created for the request
Drafted(r) == reqs[r].draft # NoDraft \/ TasksOf(r) # {}

ValidationError == "Missing or invalid required email fields"

\* a field of the inbound payload is present, a string and not empty
Present(v) == IsString(v) /\ v.v # <<>>

\* C1: the normalization of a POST body never raises a fault: the handler's
\* catch-all server error is never the response, and a request whose from, to
\* or subject could not be recovered ends in the validation client error.
C1_NormalizationNeverFaults ==
  \A r \in DOMAIN reqs : Posted(r) =>
    /\ ~reqs[r].norm.threw
    /\ reqs[r].resp.status # 500 \/ reqs[r].resp.error # "Internal server error while processing email"
    /\ (reqs[r].pc = "done" /\ ~HasAllThree(reqs[r].norm)) =>
          (reqs[r].resp.status = 400 /\ reqs[r].resp.error = ValidationError)

\* C2: a draft is produced and a task created only if from, to and subject
\* were each present and non-empty in the payload and passed validation.
C2_TaskOnlyFromCompletePayload ==
  \A r \in DOMAIN reqs : Drafted(r) =>
    /\ Present(reqs[r].norm.from) /\ validateAndSanitizeEmail(reqs[r].norm.from.v) # NoStr
    /\ Present(reqs[r].norm.to) /\ validateAndSanitizeEmail(reqs[r].norm.to.v) # NoStr
    /\ Present(reqs[r].norm.subject)

\* the part of an address before its first '@'
LocalPart(addr) ==
  LET ats == {i \in 1..Len(addr) : <<addr[i]>> = <<"@">>} IN
  IF ats = {} THEN addr ELSE SubSeq(addr, 1, SetMin(ats) - 1)

\* C3: the user identifier the lookup is attempted with is the local part of
\* the recipient address with the casing it had in the payload.
C3_UserIdKeepsCasing ==
  \A r \in DOMAIN reqs : reqs[r].userId # NoStr =>
    reqs[r].userId = LocalPart(Trim(CharsOf(reqs[r].norm.to)))

\* the users whose id equals the identifier when case is ignored
Matching(userId) == {u \in users : ToLower(u) = ToLower(userId)}

\* C4: 'User not found' (404) is the response exactly when the fields were
\* valid, the store answered and no user id equals the extracted identifier
\* exactly or case-insensitively; it differs from the validation error (400),
\* carries the attempted identifier and no task is created.  A store read that
\* fails ends in the separate 'Database error while checking user'.
C4_UserNotFound ==
  \A r \in DOMAIN reqs : Posted(r) =>
    /\ reqs[r].resp.status = 404 =>
         /\ reqs[r].resp.error = "User not found"
         /\ reqs[r].userId # NoStr
         /\ reqs[r].resp.details.requestedUserId = reqs[r].userId
         /\ Matching(reqs[r].userId) = {}
         /\ reqs[r].clean.from # NoStr /\ reqs[r].clean.to # NoStr /\ reqs[r].clean.subject # <<>>
         /\ ~Drafted(r)
    /\ reqs[r].resp.status = 400 =>
         reqs[r].resp.error \in {ValidationError, "Invalid email address format"}
    /\ (reqs[r].pc = "done" /\ reqs[r].userId # NoStr /\ Matching(reqs[r].userId) = {}) =>
         /\ ~Drafted(r)
         /\ \/ reqs[r].resp.status = 404
            \/ reqs[r].resp.status = 500 /\ reqs[r].resp.error = "Database error while checking user"

\* a request for an unknown user of a store that has users, answered 404
C4_Witness ==
  \E r \in DOMAIN reqs :
    /\ reqs[r].resp.status = 404 /\ users # {}
    /\ reqs[r].resp.details.requestedUserId = reqs[r].userId

RECURSIVE Lines(_)
Lines(s) ==
  IF "\n" \notin Range(s) THEN <<s>>
  ELSE LET i == SetMin({k \in 1..Len(s) : s[k] = "\n"})
       IN <<SubSeq(s, 1, i - 1)>> \o Lines(From(s, i + 1))

\* the quoted reply text of a body: its lines that begin with '>'
QuotedText(body) ==
  {Trim(From(l, 2)) : l \in {x \in Range(Lines(body)) : x # <<>> /\ x[1] = ">"}} \ {<<>>}

\* the signature block of a body: the lines after its first '--' line
SignatureText(body) ==
  LET ls == Lines(body)
      dashes == {i \in 1..Len(ls) : Trim(ls[i]) = <<"-", "-">>}
  IN IF dashes = {} THEN {}
     ELSE {Trim(ls[j]) : j \in (SetMin(dashes) + 1)..Len(ls)} \ {<<>>}

\* the body of the inbound email
InboundBody(r) ==
  IF CharsOf(reqs[r].norm.text) # <<>> THEN CharsOf(reqs[r].norm.text) ELSE CharsOf(reqs[r].norm.html)

\* C6: the description of a draft holds no quoted line ('>') of the inbound
\* body and nothing of the signature block after its '--' line.
C6_DescriptionOmitsQuotesAndSignature ==
  \A r \in DOMAIN reqs : reqs[r].draft # NoDraft =>
    \A l \in QuotedText(InboundBody(r)) \cup SignatureText(InboundBody(r)) :
      ~Includes(reqs[r].draft.description, l)

\* C7: the dueDate of a draft, and of a stored task, is a valid calendar
\* date, whatever the digits of a 'due: YYYY-MM-DD' token of the subject.
C7_DueDateIsCalendarDate ==
  /\ \A r \in DOMAIN reqs :
       (reqs[r].draft # NoDraft /\ reqs[r].draft.dueDate # NoDate) =>
          IsValidCalendarDate(reqs[r].draft.dueDate)
  /\ \A i \in 1..Len(tasks) :
       tasks[i].data.draft.dueDate # NoDate => IsValidCalendarDate(tasks[i].data.draft.dueDate)

\* a draft whose subject says 'due: 2024-02-30': the date rolled over to March 1
C7_Witness ==
  \E r \in DOMAIN reqs :
    /\ reqs[r].draft # NoDraft
    /\ Includes(reqs[r].clean.subject, <<"d", "u", "e", ":", " ", "2", "0", "2", "4", "-", "0", "2", "-", "3", "0">>)
    /\ reqs[r].draft.dueDate = MkDate(2024, 3, 1)

\* the importance the keywords of a subject stand for
ImportanceByKeyword(s) ==
  LET has(w) == \E i \in 1..Len(s) : MatchAtCI(s, i, w) IN
  IF has(<<"u", "r", "g", "e", "n", "t">>) \/ has(<<"a", "s", "a", "p">>) \/ has(<<"i", "m", "m", "e", "d", "i", "a", "t", "e">>) THEN 9
  ELSE IF has(<<"h", "i", "g", "h">>) \/ has(<<"i", "m", "p", "o", "r", "t", "a", "n", "t">>) THEN 7
  ELSE IF has(<<"l", "o", "w">>) \/ has(<<"m", "i", "n", "o", "r">>) THEN 3
  ELSE 5

\* the subject of the inbound email
InboundSubject(r) == CharsOf(reqs[r].norm.subject)

\* C8 as amended: the importance of a draft is 9, 7, 3 or 5 by the keywords of
\* the sanitized subject (the inbound subject without '<', '>' and control
\* characters, trimmed and cut to 200 characters) and lies in 1..10.
C8_ImportanceFromSanitizedSubject ==
  \A r \in DOMAIN reqs : reqs[r].draft # NoDraft =>
    /\ reqs[r].draft.importance = ImportanceByKeyword(sanitizeSubject(InboundSubject(r)))
    /\ reqs[r].draft.importance \in 1..10

\* a draft of importance 9 whose inbound subject matches no keyword
C8_Witness ==
  \E r \in DOMAIN reqs :
    /\ reqs[r].draft # NoDraft
    /\ reqs[r].draft.importance = 9
    /\ ImportanceByKeyword(InboundSubject(r)) = 5

\* C8 as claimed: the importance of a draft is 9, 7, 3 or 5 by the keywords
\* found anywhere in the inbound subject.
C8_ImportanceFromInboundSubject ==
  \A r \in DOMAIN reqs : reqs[r].draft # NoDraft =>
    /\ reqs[r].draft.importance = ImportanceByKeyword(InboundSubject(r))
    /\ reqs[r].draft.importance \in 1..10

\* C9: a format that matched the body wins only if it filled from, to and
\* subject; otherwise the later stages, the pattern fallback included, are
\* still applied.
C9_LaterStagesStillApplied ==
  \A r \in DOMAIN reqs :
    (Posted(r) /\ ~reqs[r].norm.threw
       /\ reqs[r].norm.stage \in {"event-data", "recipient", "simple"}
       /\ ~HasAllThree(reqs[r].norm)) => reqs[r].norm.fallback

\* C10: from a massive array with a single email object the fields are
\* recovered if and only if the index of that object is a sampled index.
C10_RecoveredIffSampled ==
  \A r \in DOMAIN reqs : Posted(r) =>
    \A n \in MassiveLens : \A k \in MassiveOffsets(n) :
      reqs[r].body = MassiveArray(n, k) =>
        (HasAllThree(reqs[r].norm) <=> k \in Range(SampleIndices(n)))

\* the number of elements of the array or array-like payload of a request
PayloadSize(r) ==
  LET Of(pb) == IF pb.t = "arr" \/ IsArrayLike(pb) THEN pb.n ELSE 0
  IN Of(ParseBody(reqs[r].body))

\* C11: a payload of 10,000 or more elements is never serialized in full nor
\* scanned element by element; an array is serialized in full only if it has
\* fewer than 10,000 elements and only after it was sampled.
C11_LargePayloadNeverSerialized ==
  \A r \in DOMAIN reqs : Posted(r) =>
    /\ PayloadSize(r) >= FullRegexCeiling =>
         reqs[r].norm.serialized = {} /\ reqs[r].norm.scanned = 0
    /\ \A n \in reqs[r].norm.serialized :
         n < FullRegexCeiling /\ reqs[r].norm.sampled # <<>>

\* C12: the text the patterns of the final fallback are matched against is at
\* most 50,000 characters long, whatever the body is.
C12_FallbackTextBounded ==
  \A r \in DOMAIN reqs :
    (Posted(r) /\ reqs[r].norm.fallback) => reqs[r].norm.fallbackLen <= FallbackTextLimit

FieldMark(failed) == IF failed THEN "missing or invalid" ELSE "ok"

\* the validation of the fields of a normalized payload fails for from, to, subject
FromFails(r) == validateAndSanitizeEmail(CharsOf(reqs[r].norm.from)) = NoStr

ToFails(r) == validateAndSanitizeEmail(CharsOf(reqs[r].norm.to)) = NoStr

SubjectFails(r) == sanitizeSubject(CharsOf(reqs[r].norm.subject)) = <<>>

FailureStatus(f) ==
  IF f.isError /\ "permission" \in f.words THEN 403
  ELSE IF f.isError /\ ("quota" \in f.words \/ "limit" \in f.words) THEN 429
  ELSE 500

FailureError(f) ==
  IF f.isError /\ "permission" \in f.words THEN "Permission denied while creating task"
  ELSE IF f.isError /\ ("quota" \in f.words \/ "limit" \in f.words) THEN "Database quota exceeded"
  ELSE IF f.isError THEN "Failed to create task in database"
  ELSE "Unknown error while creating task"

ExtractorSubject(r) == reqs[r].clean.subject

HasWord(s, w) == \E i \in 1..Len(s) : MatchAtCI(s, i, w)

\* the year, month and day written in the first 'due: YYYY-MM-DD' of a subject
WrittenDate(s) ==
  LET At(j) ==
        [y |-> 1000 * DigitVal(s[j]) + 100 * DigitVal(s[j+1]) + 10 * DigitVal(s[j+2]) + DigitVal(s[j+3]),
         m |-> 10 * DigitVal(s[j+5]) + DigitVal(s[j+6]),
         d |-> 10 * DigitVal(s[j+8]) + DigitVal(s[j+9])]
  IN At(WsRunEnd(s, SetMin(DueMatches(s)) + 4) + 1)

\* the first rule of the due-date inference that applies to a subject
DueRule(s) ==
  IF DueMatches(s) # {} THEN "explicit"
  ELSE IF HasWord(s, <<"t", "o", "m", "o", "r", "r", "o", "w">>) THEN "tomorrow"
  ELSE IF HasWord(s, <<"n", "e", "x", "t", " ", "w", "e", "e", "k">>) THEN "next week"
  ELSE "none"

\* C15: the due date of a draft is inferred from the subject alone by the
\* first rule that applies, in the order explicit 'due: YYYY-MM-DD', 'tomorrow',
\* 'next week'; the explicit date wins over 'tomorrow', and a subject with none
\* of them gives a draft without due date.
C15_DueDateRuleOrder ==
  \A r \in DOMAIN reqs : reqs[r].draft # NoDraft =>
    LET ByRule(rule, w, due) ==
          /\ rule = "explicit" =>
               /\ due # NoDate
               /\ IsValidCalendarDate(MkDate(w.y, w.m, w.d)) => due = MkDate(w.y, w.m, w.d)
          /\ rule = "tomorrow" => due = AddDays(today, 1)
          /\ rule = "next week" => due = AddDays(today, 7)
          /\ rule = "none" => due = NoDate
    IN ByRule(DueRule(ExtractorSubject(r)),
              IF DueMatches(ExtractorSubject(r)) # {} THEN WrittenDate(ExtractorSubject(r))
              ELSE [y |-> 0, m |-> 0, d |-> 0],
              reqs[r].draft.dueDate)

\* a subject with 'Due: 2024-01-20' and 'tomorrow' whose draft is due 2024-01-20
C15_Witness ==
  \E r \in DOMAIN reqs :
    /\ reqs[r].draft # NoDraft
    /\ HasWord(ExtractorSubject(r), <<"d", "u", "e", ":", " ", "2", "0", "2", "4", "-", "0", "1", "-", "2", "0">>)
    /\ HasWord(ExtractorSubject(r), <<"t", "o", "m", "o", "r", "r", "o", "w">>)
    /\ reqs[r].draft.dueDate = MkDate(2024, 1, 20)

\* the days of the months 1..m of year y
RECURSIVE DaysThrough(_, _)
DaysThrough(y, m) == IF m = 0 THEN 0 ELSE DaysInMonth(y, m) + DaysThrough(y, m - 1)

\* the days of the years from up to, not including, y
RECURSIVE DaysOfYears(_, _)
DaysOfYears(from, y) == IF y <= from THEN 0 ELSE DaysThrough(y - 1, 12) + DaysOfYears(from, y - 1)

\* the number of calendar days from the date a to the date b
DaysBetween(a, b) ==
  (DaysOfYears(a.y, b.y) + DaysThrough(b.y, b.m - 1) + b.d) - (DaysThrough(a.y, a.m - 1) + a.d)

\* C16: for a subject with 'tomorrow' (any case) and no explicit due date, the
\* due date is the calendar day after the processing date; for 'next week'
\* without 'tomorrow' and explicit date, the seventh calendar day after it;
\* across the ends of months and years.
C16_RelativeDueDates ==
  \A r \in DOMAIN reqs : reqs[r].draft # NoDraft =>
    LET Days(rule, due) ==
          /\ rule = "tomorrow" =>
               IsValidCalendarDate(due) /\ due.y >= today.y /\ DaysBetween(today, due) = 1
          /\ rule = "next week" =>
               IsValidCalendarDate(due) /\ due.y >= today.y /\ DaysBetween(today, due) = 7
    IN Days(DueRule(ExtractorSubject(r)), reqs[r].draft.dueDate)

\* 'tomorrow' on the last day of a year, and 'next week' at the end of February
C16_Witness ==
  \/ \E r \in DOMAIN reqs :
       /\ reqs[r].draft # NoDraft
       /\ DueRule(ExtractorSubject(r)) = "tomorrow"
       /\ today = MkDate(2024, 12, 31)
       /\ reqs[r].draft.dueDate = MkDate(2025, 1, 1)
  \/ \E r \in DOMAIN reqs :
       /\ reqs[r].draft # NoDraft
       /\ DueRule(ExtractorSubject(r)) = "next week"
       /\ today = MkDate(2024, 2, 28)
       /\ reqs[r].draft.dueDate = MkDate(2024, 3, 6)

\* the title the cleaning gives a subject: without its one leading marker and
\* the whitespace around the rest, the default when nothing is left
TitleOf(subject) ==
  LET Rest(ms) ==
        IF ms = {} THEN subject
        ELSE LET Of(rest) == IF rest = <<>> THEN DefaultTitle ELSE rest
             IN Of(Trim(From(subject, Len(CHOOSE mk \in ms : TRUE) + 1)))
  IN Rest({mk \in ReplyMarkers : Len(mk) <= Len(subject) /\ ToLower(SubSeq(subject, 1, Len(mk))) = mk})

C18_TitleAndDescriptionLengths ==
  \A r \in DOMAIN reqs : reqs[r].draft # NoDraft =>
    /\ Len(reqs[r].draft.title) \in 1..SubjectLimit
    /\ Len(reqs[r].draft.description) \in 1..TextLimit

\* a draft of a body longer than 5000 characters, and one of a subject longer
\* than 200 characters
C18_Witness ==
  \E r \in DOMAIN reqs :
    /\ reqs[r].draft # NoDraft
    /\ Len(CharsOf(reqs[r].norm.text)) > TextLimit
    /\ Len(reqs[r].draft.description) = TextLimit

\* the subject starts with a reply/forward marker
HasLeadingMarker(subject) ==
  \E mk \in ReplyMarkers : Len(mk) <= Len(subject) /\ ToLower(SubSeq(subject, 1, Len(mk))) = mk

\* C19: the provenance of a draft is the validated sender, the server's date
\* of processing as receipt time, never a value of the payload, and as
\* originalSubject the subject before the removal of the reply/forward marker,
\* which differs from the title when the subject has such a marker.
C19_Provenance ==
  \A r \in DOMAIN reqs : reqs[r].draft # NoDraft =>
    /\ reqs[r].draft.sender = validateAndSanitizeEmail(CharsOf(reqs[r].norm.from))
    /\ reqs[r].draft.sender # NoStr
    /\ reqs[r].draft.receivedAt = today
    /\ reqs[r].draft.originalSubject = Trim(ExtractorSubject(r))
    /\ HasLeadingMarker(ExtractorSubject(r)) =>
         reqs[r].draft.originalSubject # reqs[r].draft.title

\* a payload with a receivedAt of its own and a subject with a marker, drafted
\* with the server's date and the subject as it came
C19_Witness ==
  \E r \in DOMAIN reqs :
    /\ reqs[r].draft # NoDraft
    /\ Prop(reqs[r].body, <<"r", "e", "c", "e", "i", "v", "e", "d", "A", "t">>) = Str(<<"2", "0", "0", "1", "-", "0", "1", "-", "0", "1">>)
    /\ reqs[r].draft.receivedAt = today
    /\ reqs[r].draft.originalSubject = <<"R", "e", ":", " ", "R", "e", "v", "i", "e", "w", " ", "p", "r", "o", "p", "o", "s", "a", "l">>
    /\ reqs[r].draft.title = <<"R", "e", "v", "i", "e", "w", " ", "p", "r", "o", "p", "o", "s", "a", "l">>

\* the request was ended by a failure of the store
StoreFailed(r) ==
  \/ reqs[r].failure # NoFailure
  \/ reqs[r].resp.error = "Database error while checking user"

DraftAlone(body, now) ==
  LET Of(c) == parseEmailToTask([from |-> c.from, to |-> c.to, subject |-> c.subject,
                                 text |-> c.text, html |-> c.html, receivedAt |-> now], now)
  IN Of(Sanitized(Normalize(body)))

\* C21: two requests handled concurrently, in any interleaving of their
\* lookups and writes, share no state: each request answered with success has
\* added exactly one task document of its own, under its own id and with its
\* own draft, which stays in the store whatever the other request does, and
\* the draft of each request is the one the request yields when handled alone.
C21_ConcurrentRequestsIndependent ==
  \A r \in DOMAIN reqs :
    /\ reqs[r].resp.status = 200 =>
         /\ reqs[r].taskId \in 1..Len(tasks)
         /\ tasks[reqs[r].taskId] =
              [path |-> reqs[r].actualUserId, request |-> r, data |-> TaskData(reqs[r])]
         /\ Cardinality({i \in 1..Len(tasks) : tasks[i].request = r}) = 1
         /\ \A r2 \in DOMAIN reqs \ {r} :
              reqs[r2].resp.status = 200 => reqs[r2].taskId # reqs[r].taskId
    /\ reqs[r].draft # NoDraft => reqs[r].draft = DraftAlone(reqs[r].body, today)

\* both requests answered with success for the same user, the second one's
\* task written first, each task with the draft of its own request
C21_Witness ==
  /\ DOMAIN reqs = {1, 2}
  /\ reqs[1].body # reqs[2].body
  /\ reqs[1].resp.status = 200 /\ reqs[2].resp.status = 200
  /\ Len(tasks) = 2
  /\ tasks[1].request = 2 /\ tasks[2].request = 1
  /\ tasks[1].path = tasks[2].path
  /\ tasks[1].data.draft # tasks[2].data.draft

\* the normalized payload has neither a text nor an html body
NoBodyText(r) ==
  /\ reqs[r].norm.text \in {Undef, Null, Str(<<>>)}
  /\ reqs[r].norm.html \in {Undef, Null, Str(<<>>)}

\* C22: a payload with valid from, to and subject and neither a text nor an
\* html body (absent or empty) gets a draft whose description is the fixed
\* placeholder 'No description provided'.
C22_PlaceholderDescription ==
  \A r \in DOMAIN reqs :
    (Drafted(r) /\ NoBodyText(r)) =>
      reqs[r].draft.description = <<"N", "o", " ", "d", "e", "s", "c", "r", "i", "p", "t", "i", "o", "n", " ", "p", "r", "o", "v", "i", "d", "e", "d">>

\* a task written for a payload that has no text and no html key
C22_Witness ==
  \E r \in DOMAIN reqs :
    /\ NoBodyText(r)
    /\ reqs[r].resp.status = 200
    /\ TasksOf(r) # {}
    /\ reqs[r].norm.text = Undef
    /\ reqs[r].clean.text = <<>>

\* a flat object of exactly the four strings from, to, subject and text
IsFlatSimple(v) ==
  /\ v.t = "obj"
  /\ v.n = 0
  /\ Len(v.props) = 4
  /\ {v.props[p][1] : p \in 1..4} = {kFrom, kTo, kSubject, kText}
  /\ \A p \in 1..4 : IsString(v.props[p][2])

C24_SamplerBounded ==
  \A r \in DOMAIN reqs :
    (Posted(r) /\ reqs[r].body.t = "arr" /\ reqs[r].body.n > 1000
       /\ reqs[r].norm.sampled # <<>>) =>
      /\ Len(reqs[r].norm.sampled) <= 30
      /\ \A i \in 1..Len(reqs[r].norm.sampled) :
           reqs[r].norm.sampled[i] \in 0..(reqs[r].body.n - 1)

\* an array of 50,000 elements sampled at 30 places, the last of them 49,900
C24_Witness ==
  \E r \in DOMAIN reqs :
    /\ Posted(r)
    /\ reqs[r].body.t = "arr" /\ reqs[r].body.n = 50000
    /\ Len(reqs[r].norm.sampled) = 30
    /\ reqs[r].norm.sampled[30] = 49900
    /\ reqs[r].norm.sampled[11] = 25000

\* C25: an object that is not an array and has at least one key is scanned as
\* array-like if and only if at least half of its keys are numeric; an object
\* with one numeric key among three keys is not.
C25_ArrayLikeIffHalfNumeric ==
  \A r \in DOMAIN reqs :
    LET b == reqs[r].body IN
    (Posted(r) /\ b.t = "obj" /\ b.n + Len(b.props) > 0) =>
      (reqs[r].norm.scanned > 0 <=> 2 * b.n >= b.n + Len(b.props))

\* the payload has an html body and no text body
HtmlOnly(r) ==
  /\ ~Truthy(reqs[r].norm.text)
  /\ IsString(reqs[r].norm.html) /\ Truthy(reqs[r].norm.html)

\* C26: for an email whose only body is HTML the description is the body with
\* every tag removed as a whole, '<p>Hello</p>' giving 'Hello': it is the
\* cleaned text of the markup and holds neither '<' or '>' nor the tag names.
C26_HtmlTagsRemovedWhole ==
  \A r \in DOMAIN reqs :
    (Drafted(r) /\ HtmlOnly(r)) =>
      /\ reqs[r].draft.description = sanitizeTextContent(cleanEmailBody(reqs[r].norm.html.v))
      /\ \A i \in 1..Len(reqs[r].draft.description) : ~IsAngle(reqs[r].draft.description[i])
      /\ reqs[r].norm.html.v = <<"<", "p", ">", "H", "e", "l", "l", "o", "<", "/", "p", ">">> => reqs[r].draft.description = <<"H", "e", "l", "l", "o">>

\* the handler of request r is before its first step or can take its next one
CanStep(r) ==
  \/ reqs[r].pc = "start"
  \/ ENABLED (LookupExact(r) \/ LookupScan(r) \/ CreateTask(r))

\* C27: every request, whatever its method and body and whether the reads of
\* the user store and the write of the task succeed or fail, gets exactly one
\* response: never a second one, and the handler goes on until it has sent
\* one.  A request adds at most one task document, and it has added one if
\* and only if its response is the success response.
C27_OneResponseOneTask ==
  \A r \in DOMAIN reqs :
    /\ reqs[r].sent <= 1
    /\ reqs[r].sent = 1 <=> reqs[r].pc = "done"
    /\ reqs[r].sent = 1 <=> reqs[r].resp # NoResponse
    /\ reqs[r].pc # "done" => CanStep(r)
    /\ Cardinality(TasksOf(r)) <= 1
    /\ TasksOf(r) # {} <=> reqs[r].resp.status = 200

\* a request answered once with success and with its one task in the store
C27_Witness ==
  \E r \in DOMAIN reqs :
    /\ reqs[r].pc = "done" /\ reqs[r].sent = 1
    /\ reqs[r].resp.status = 200
    /\ Cardinality(TasksOf(r)) = 1
    /\ reqs[r].resp.details.taskId = reqs[r].taskId

\* C28: a 'User not found' response tells nothing about the user store but
\* that the requested identifier is unknown: it is the response the request
\* gets from any other store without the identifier, the empty store among
\* them.
C28_NotFoundRevealsNothing ==
  \A r \in DOMAIN reqs :
    reqs[r].resp.status = 404 =>
      reqs[r].resp =
        [status |-> 404, error |-> "User not found",
         details |-> [requestedUserId |-> reqs[r].userId, availableUsers |-> <<>>]]

\* every call made so far has completed successfully
AllCompleted == \A c \in 1..Len(hook.calls) : hook.calls[c].pc = "done"

Called(op) == \E c \in 1..Len(hook.calls) : hook.calls[c].op = op

\* C29: when a loadTasks and the createTask or deleteTask calls made while it
\* was in flight, in whatever order their steps were taken, have all
\* completed successfully, the task list of the hook holds exactly the tasks
\* of the store: every task created is in it and no deleted task is.
C29_ListMatchesStore ==
  (/\ hook.signedIn
   /\ AllCompleted
   /\ Called("loadTasks")
   /\ Called("createTask") \/ Called("deleteTask")) =>
     Range(hook.tasks) = Range(hook.store)

\* C30: in a scheduled run a failure while one user is processed (the task
\* query, the token lookup or the send) does not keep the users after it
\* from being processed: a run that has fetched the users and has ended has
\* begun on every one of them, and it has ended without raising.
C30_FailureDoesNotStopRun ==
  /\ ~run.raised
  /\ (run.pc = "done" /\ run.snapshot # <<>>) => run.visited = run.snapshot
====
